---------------------------- MODULE Spec2Model ----------------------------
(***************************************************************************)
(* A model of the Markdown directive pipeline of astro-koharu:             *)
(*   remark-comic.ts, remark-video.ts (Artplayer lowering), the native     *)
(*   <video> lowering, and the GitHub-alert rewriter.                      *)
(*                                                                         *)
(* Strings are sequences of symbols.  A symbol stands for one character    *)
(* (" ", "<", ">", "&", "/", ":") or for one run of letters ("a", "http",  *)
(* "javascript", ...) or for one character reference ("&lt;", "&amp;").    *)
(* The letter runs of an alphabet are chosen so that no two of them        *)
(* concatenate to a word the code compares against.                        *)
(***************************************************************************)
EXTENDS Integers, Sequences, FiniteSets, TLC

VARIABLES
    tree0,      \* the document's root children as parsed, before any pass
    tree,       \* the root children as the passes have left them so far
    pass,       \* the pass that is running ("idle" between passes, "threw" once one threw)
    idx,        \* index of the next root child the running traversal visits
    ran,        \* the passes that have run to completion
    warnings,   \* the diagnostics written with console.warn, in order
    fsReads,    \* the manifest reads made: which node, which path, what the file held
    fPc,        \* position of the pure-function bench: which call was made last
    fArg,       \* the argument handed to the function under test
    fRes,       \* the value the last call returned
    fPrev,      \* the value the call before the last returned
    sub,        \* image-wrap pass: 0 at a child of the parent, k at its k-th child
    folder,     \* manifest generator: the gallery folder as scanComicFolders found it
    manifest0,  \* what the folder's manifest.json held before the last generator run
    manifest,   \* what the folder's manifest.json holds now
    runLog,     \* the generator runs so far: the force flag and what generateManifest returned
    dom,        \* image enhancer: per .markdown-image of the container, its load state and classes
    enhancedImages,      \* the images in the WeakSet enhancedImages
    boundContainers,     \* the containers in the WeakSet boundContainers
    calls,      \* the enhanceImages calls so far: loadedCount, totalImages, grouping runs
    listeners,  \* per image, the calls whose load and error listeners are registered
    photoSwipeInstance,  \* the module variable photoSwipeInstance
    isOpening,  \* the module variable isOpening
    opens,      \* the openPhotoSwipe calls waiting at `await import('photoswipe')`
    instances,  \* the PhotoSwipe objects constructed and not destroyed: "open" or "failed"
    lastClick,  \* what the last click on an image led to
    videoContainers,        \* video enhancer: per .artplayer-container, has it data-video-src
    initializedContainers,  \* the containers in the WeakSet initializedContainers
    playerInstances,        \* the Map playerInstances: container to player
    players,    \* the Artplayer objects constructed and not destroyed, and their containers
    imports,    \* the initializePlayer calls waiting at `await import('artplayer')`
    started,    \* how many initializePlayer calls got to the import
    lastCall    \* the last of enhanceVideos and cleanupVideos that was called

pvars == <<tree0, tree, pass, idx, ran, warnings, fsReads>>
fvars == <<fPc, fArg, fRes, fPrev>>
gvars == <<folder, manifest0, manifest, runLog>>
evars == <<dom, enhancedImages, boundContainers, calls, listeners, photoSwipeInstance,
           isOpening, opens, instances, lastClick>>
vvars == <<videoContainers, initializedContainers, playerInstances, players, imports,
           started, lastCall>>
bvars == <<evars, vvars>>
ovars == <<sub, gvars, bvars>>
vars == <<tree0, tree, pass, idx, ran, warnings, fsReads, fPc, fArg, fRes, fPrev, sub,
          folder, manifest0, manifest, runLog,
          dom, enhancedImages, boundContainers, calls, listeners, photoSwipeInstance,
          isOpening, opens, instances, lastClick,
          videoContainers, initializedContainers, playerInstances, players, imports,
          started, lastCall>>

\* The programs a specification does not run stay as they are.
GeneratorIdle == folder = <<>> /\ manifest0 = <<>> /\ manifest = <<>> /\ runLog = <<>>
EnhancerIdle ==
    /\ dom = <<>> /\ enhancedImages = {} /\ boundContainers = {} /\ calls = <<>>
    /\ listeners = <<>> /\ photoSwipeInstance = [k |-> "null", v |-> <<>>]
    /\ isOpening = FALSE /\ opens = <<>> /\ instances = <<>> /\ lastClick = "none"
VideosIdle ==
    /\ videoContainers = <<>> /\ initializedContainers = {} /\ playerInstances = <<>>
    /\ players = <<>> /\ imports = <<>> /\ started = 0 /\ lastCall = "none"
BrowserIdle == EnhancerIdle /\ VideosIdle
OthersIdle == sub = 0 /\ GeneratorIdle /\ BrowserIdle

---------------------------------------------------------------------------
(* Bounds of the model.                                                    *)

MaxTextLen == 4
MaxUrlLen == 5
MaxNodes == 2
MaxRuns == 2

---------------------------------------------------------------------------
(* JavaScript values: undefined, null, a string (a sequence of symbols),   *)
(* and, for what JSON.parse can put into a manifest field, a number or an  *)
(* object.                                                                 *)

Undef == [k |-> "undefined", v |-> <<>>]
Null == [k |-> "null", v |-> <<>>]
Str(s) == [k |-> "string", v |-> s]
Num(n) == [k |-> "number", v |-> <<n>>]
Obj == [k |-> "object", v |-> <<>>]

IsStr(o) == o.k = "string"

\* JavaScript truthiness: `!text`, `value || ''`, `manifest.cover || null`.
Truthy(o) ==
    CASE o.k = "string" -> o.v # <<>>
      [] o.k = "number" -> o.v # <<"0">>
      [] o.k = "object" -> TRUE
      [] OTHER -> FALSE

WhiteSpace == {" ", "\n"}

RECURSIVE TrimStart(_)
TrimStart(s) ==
    IF s = <<>> THEN s
    ELSE IF Head(s) \in WhiteSpace THEN TrimStart(Tail(s)) ELSE s

RECURSIVE TrimEnd(_)
TrimEnd(s) ==
    IF s = <<>> THEN s
    ELSE IF s[Len(s)] \in WhiteSpace THEN TrimEnd(SubSeq(s, 1, Len(s) - 1)) ELSE s

\* String.prototype.trim
Trim(s) == TrimEnd(TrimStart(s))

\* `attributes.x?.trim() || ''`: undefined and null both give ''.
TrimOrEmpty(o) == IF IsStr(o) THEN Trim(o.v) ELSE <<>>

\* All sequences over A of length at most n.
SeqsUpTo(A, n) == UNION {[1..k -> A] : k \in 0..n}

---------------------------------------------------------------------------
(* sanitize-html with allowedTags: [] and allowedAttributes: {}.           *)
(* The input is tokenised as HTML; every tag is dropped, text is kept      *)
(* with its character references decoded, and the kept text is written     *)
(* out escaped.  The text alphabet holds no "/", so closing tags and the   *)
(* non-text elements (script, style) are outside the inputs modelled.      *)

TextAlphabet == {"a", " ", "<", ">", "&", "&lt;", "&amp;"}

Letters == {"a", "x", "http", "https", "javascript"}

\* A character reference decodes to the character it names.
DecodeEntity(c) ==
    CASE c = "&lt;" -> "<"
      [] c = "&gt;" -> ">"
      [] c = "&amp;" -> "&"
      [] OTHER -> c

\* escapeHtml: & < > are written as character references.
EscapeHtml(c) ==
    CASE c = "&" -> "&amp;"
      [] c = "<" -> "&lt;"
      [] c = ">" -> "&gt;"
      [] OTHER -> c

\* The least index j >= i with s[j] = c, or 0 when there is none.
IndexFrom(s, c, i) ==
    LET hits == {j \in i..Len(s) : s[j] = c}
    IN IF hits = {} THEN 0 ELSE CHOOSE j \in hits : \A h \in hits : j <= h

\* The tokenizer in its Text state at s[i]: the characters of the text
\* events from there on.  "<" followed by a letter opens a tag, which runs
\* to the next ">" and is dropped (an unfinished tag at the end of the input
\* is dropped too); any other "<" is text.
RECURSIVE TextFrom(_, _)
TextFrom(s, i) ==
    IF i > Len(s) THEN <<>>
    ELSE IF s[i] = "<"
         THEN IF i + 1 <= Len(s) /\ s[i + 1] \in Letters
              THEN LET close == IndexFrom(s, ">", i + 1)
                   IN IF close = 0 THEN <<>> ELSE TextFrom(s, close + 1)
              ELSE <<"<">> \o TextFrom(s, i + 1)
         ELSE <<DecodeEntity(s[i])>> \o TextFrom(s, i + 1)

sanitizeHtml(s) ==
    LET text == TextFrom(s, 1)
    IN [i \in 1..Len(text) |-> EscapeHtml(text[i])]

\* sanitizeText with a sanitizer that decodes character references and does
\* not escape its output.
sanitizeTextMutNoEscape(text) ==
    IF ~Truthy(text) THEN <<>> ELSE Trim(TextFrom(text.v, 1))

\* remark-comic.ts sanitizeText
sanitizeText(text) ==
    IF ~Truthy(text) THEN <<>> ELSE Trim(sanitizeHtml(text.v))

---------------------------------------------------------------------------
(* new URL(s) without a base, for the URL alphabet.                        *)

UrlAlphabet == {"/", ":", " ", "http", "https", "javascript", "x"}

SpecialSchemes == {"http", "https"}

ParseFailure == [ok |-> FALSE, protocol |-> <<>>]

\* The WHATWG URL parser on an input already stripped of leading and
\* trailing spaces.  The scheme is the run of letters before the first ":";
\* an http(s) URL needs a host, which is the text after the slashes up to
\* the next "/", holds no space, and may be followed by ":" and an empty
\* port (the alphabet has no digits).

\* The authority of a special URL: what follows the slashes after the
\* scheme, up to the next "/".
AuthorityOf(rest) ==
    LET nonSlash == {j \in 1..Len(rest) : rest[j] # "/"}
        start == IF nonSlash = {} THEN Len(rest) + 1
                 ELSE CHOOSE j \in nonSlash : \A h \in nonSlash : j <= h
        slash == IndexFrom(rest, "/", start)
    IN SubSeq(rest, start, IF slash = 0 THEN Len(rest) ELSE slash - 1)

\* The authority split at its first ":" (portAt, 0 when there is none).
ParseAuthority(scheme, authority, portAt) ==
    LET host == IF portAt = 0 THEN authority ELSE SubSeq(authority, 1, portAt - 1)
        port == IF portAt = 0 THEN <<>>
                ELSE SubSeq(authority, portAt + 1, Len(authority))
    IN IF host = <<>> \/ (\E j \in 1..Len(host) : host[j] = " ") \/ port # <<>>
       THEN ParseFailure
       ELSE [ok |-> TRUE, protocol |-> scheme \o <<":">>]

\* The input split at its first ":" into scheme and rest.
ParseScheme(scheme, rest) ==
    IF Len(scheme) = 1 /\ scheme[1] \in SpecialSchemes
    THEN ParseAuthority(scheme, AuthorityOf(rest), IndexFrom(AuthorityOf(rest), ":", 1))
    ELSE [ok |-> TRUE, protocol |-> scheme \o <<":">>]

ParseFrom(s, colon) ==
    IF colon <= 1 \/ \E j \in 1..(colon - 1) : s[j] \notin Letters
    THEN ParseFailure
    ELSE ParseScheme(SubSeq(s, 1, colon - 1), SubSeq(s, colon + 1, Len(s)))

ParseUrl(s) == ParseFrom(s, IndexFrom(s, ":", 1))

\* new URL(input): leading and trailing spaces are stripped before parsing.
NewUrl(s) == ParseUrl(Trim(s))

\* `parsed.protocol === 'http:' || parsed.protocol === 'https:'`, false when
\* new URL threw.
HttpOrHttps(parsed) ==
    parsed.ok /\ parsed.protocol \in {<<"http", ":">>, <<"https", ":">>}

\* `url.trim()` on a truthy value that is no string: TypeError.
isValidUrlThrows(url) == Truthy(url) /\ ~IsStr(url)

\* isValidUrl looking at the untrimmed string.
isValidUrlMutNoTrim(url) ==
    IF ~Truthy(url) THEN FALSE
    ELSE IF url.v # <<>> /\ Head(url.v) = "/" THEN TRUE
         ELSE HttpOrHttps(NewUrl(url.v))

\* remark-comic.ts / remark-video.ts isValidUrl, where it returns (see
\* isValidUrlThrows for where it does not).
isValidUrl(url) ==
    IF ~Truthy(url) \/ ~IsStr(url) THEN FALSE
    ELSE LET trimmed == Trim(url.v)
         IN IF trimmed # <<>> /\ Head(trimmed) = "/" THEN TRUE
            ELSE HttpOrHttps(NewUrl(trimmed))

---------------------------------------------------------------------------
(* The syntax tree.  A document is the sequence of its root children; a    *)
(* directive or blockquote holds block children, a paragraph holds inline  *)
(* children.  Directives are modelled at the root only.                    *)

AttrKeys ==
    {"id", "name", "src", "author", "cover", "poster", "autoplay", "loop",
     "muted", "controls", "playsinline"}

\* `directive.attributes || {}`: a key that is not written reads undefined.
NoAttrs == [k \in AttrKeys |-> Undef]

NoProps == [unset |-> TRUE]

\* A node whose `data` is undefined.
NoData == [present |-> FALSE, hName |-> "", hProperties |-> NoProps, hChildren |-> <<>>]

NoHtml == [icon |-> "", label |-> "", div |-> Undef]

TextNode(value) == [type |-> "text", value |-> value]
Emphasis == [type |-> "emphasis", value |-> <<>>]

Paragraph(inl) ==
    [type |-> "paragraph", directiveLabel |-> FALSE, inl |-> inl, html |-> NoHtml]
LabelParagraph(inl) ==
    [type |-> "paragraph", directiveLabel |-> TRUE, inl |-> inl, html |-> NoHtml]
Code == [type |-> "code", directiveLabel |-> FALSE, inl |-> <<>>, html |-> NoHtml]

\* An mdast `html` node whose value is the title bar
\* <span class="bdm-title">{icon} {label}</span>, or, with a custom title,
\* <span class="bdm-title">{icon} <div>{div}</div></span>.
TitleNode(icon, label, div) ==
    [type |-> "html", directiveLabel |-> FALSE, inl |-> <<>>,
     html |-> [icon |-> icon, label |-> label, div |-> div]]

Node(type, name, attributes, children) ==
    [type |-> type, name |-> name, attributes |-> attributes,
     children |-> children, data |-> NoData]

\* What a visitor hands back: the node as it left it, whether it threw, the
\* diagnostics it wrote and the manifest reads it made.
Visited(node, w) == [node |-> node, threw |-> FALSE, warn |-> w, reads |-> <<>>]

---------------------------------------------------------------------------
(* remark-comic.ts                                                         *)

\* The state of the file a manifest path names.
ManifestCovers ==
    {Undef, Str(<<>>), Str(<<" ", "/", "x">>), Str(<<"javascript", ":", "x">>),
     Num("0"), Num("5")}

ManifestFiles ==
    {[state |-> st, cover |-> Undef] :
        st \in {"missing", "unreadable", "not-json", "json-null"}}
        \cup {[state |-> "object", cover |-> c] : c \in ManifestCovers}

\* A path split at its "/" separators.
RECURSIVE PathSegments(_)
PathSegments(s) ==
    LET slash == IndexFrom(s, "/", 1)
    IN IF slash = 0 THEN <<s>>
       ELSE <<SubSeq(s, 1, slash - 1)>> \o PathSegments(SubSeq(s, slash + 1, Len(s)))

\* path.join's normalisation of segments appended to the directory `stack`
\* (written from the working directory): empty and "." segments vanish, ".."
\* leaves the directory it stands in, and stays when there is none to leave.
RECURSIVE PathJoin(_, _)
PathJoin(stack, segments) ==
    IF segments = <<>> THEN stack
    ELSE LET segment == Head(segments)
         IN  IF segment \in {<<>>, <<".">>} THEN PathJoin(stack, Tail(segments))
             ELSE IF segment = <<"..">>
                  THEN IF stack # <<>> /\ stack[Len(stack)] # <<"..">>
                       THEN PathJoin(SubSeq(stack, 1, Len(stack) - 1), Tail(segments))
                       ELSE PathJoin(stack \o <<segment>>, Tail(segments))
             ELSE PathJoin(stack \o <<segment>>, Tail(segments))

\* path.join(process.cwd(), 'public', relativePath), as the directories and
\* the file name from process.cwd() on.
ManifestPath(srcPath) ==
    LET relativePath == IF srcPath # <<>> /\ Head(srcPath) = "/" THEN Tail(srcPath)
                        ELSE srcPath
    IN PathJoin(<<<<"public">>>>, PathSegments(relativePath))

\* readManifestCover: every failure inside the try block gives null.
readManifestCover(srcPath, file) ==
    CASE file.state = "missing" -> Null                  \* !fs.existsSync
      [] file.state = "unreadable" -> Null               \* readFileSync throws
      [] file.state = "not-json" -> Null                 \* JSON.parse throws
      [] file.state = "json-null" -> Null                \* null.cover throws
      [] OTHER -> IF Truthy(file.cover) THEN file.cover ELSE Null

ComicCard(name, author, cover) ==
    <<[tagName |-> "div", class |-> "comic-card",
       preview |-> IF cover # <<>> THEN Str(cover) ELSE Undef,
       previewAlt |-> name,
       nameText |-> name,
       authorText |-> IF author # <<>> THEN Str(author) ELSE Undef,
       ariaLabel |-> name]>>

ComicProps(id, name, src, author, cover) ==
    LET base == [class |-> "comic-card-container", dataComicId |-> id,
                 dataComicName |-> name, dataComicSrc |-> src]
        withAuthor == IF author # <<>> THEN [dataComicAuthor |-> author] ELSE <<>>
        withCover == IF cover # <<>> THEN [dataComicCover |-> cover] ELSE <<>>
    IN withCover @@ withAuthor @@ base

\* A validation that does not look at src beyond its presence.
ComicRejectionMutNoSrcCheck(id, name, src, explicitCover) ==
    IF id = <<>> \/ name = <<>> \/ src = <<>> THEN "comic: missing required attributes"
    ELSE IF explicitCover # <<>> /\ ~isValidUrl(Str(explicitCover)) THEN "comic: invalid cover"
    ELSE ""

\* A validation that demands an explicit cover.
ComicRejectionMutCoverRequired(id, name, src, explicitCover) ==
    IF id = <<>> \/ name = <<>> \/ src = <<>> THEN "comic: missing required attributes"
    ELSE IF ~isValidUrl(Str(src)) THEN "comic: invalid src"
    ELSE IF ~isValidUrl(Str(explicitCover)) THEN "comic: invalid cover"
    ELSE ""

\* The validation of remarkComic, in its order: "" when the directive
\* passes, otherwise the diagnostic.
ComicRejection(id, name, src, explicitCover) ==
    IF id = <<>> \/ name = <<>> \/ src = <<>> THEN "comic: missing required attributes"
    ELSE IF ~isValidUrl(Str(src)) THEN "comic: invalid src"
    ELSE IF explicitCover # <<>> /\ ~isValidUrl(Str(explicitCover)) THEN "comic: invalid cover"
    ELSE ""

\* A visitor that has created node.data before it validates.
RejectedMutDataFirst(node, diagnostic) ==
    Visited([node EXCEPT !.data.present = TRUE], <<diagnostic>>)

\* A visitor that throws on a validation failure.
RejectedMutThrow(node, diagnostic) ==
    [node |-> node, threw |-> TRUE, warn |-> <<diagnostic>>, reads |-> <<>>]

\* console.warn(...); return;  The node is left as it was.
Rejected(node, diagnostic) == Visited(node, <<diagnostic>>)

\* Cover resolution that reads the manifest before it looks at the explicit cover.
ResolveCoverMutEagerRead(explicitCover, src, file) ==
    LET manifestCover == readManifestCover(src, file)
        reads == <<[path |-> ManifestPath(src), file |-> file]>>
        usable == Truthy(manifestCover) /\ IsStr(manifestCover) /\ isValidUrl(manifestCover)
    IN [cover |-> IF explicitCover # <<>> THEN explicitCover
                  ELSE IF usable THEN manifestCover.v ELSE <<>>,
        threw |-> FALSE, warn |-> <<>>, reads |-> reads]

\* Cover resolution that takes the manifest's cover without validating it.
ResolveCoverMutNoValidation(explicitCover, src, file) ==
    IF explicitCover # <<>>
    THEN [cover |-> explicitCover, threw |-> FALSE, warn |-> <<>>, reads |-> <<>>]
    ELSE
    LET manifestCover == readManifestCover(src, file)
        reads == <<[path |-> ManifestPath(src), file |-> file]>>
        warn == IF file.state \in {"unreadable", "not-json", "json-null"}
                THEN <<"comic: failed to read manifest">> ELSE <<>>
    IN  IF Truthy(manifestCover) /\ isValidUrlThrows(manifestCover)
        THEN [cover |-> <<>>, threw |-> TRUE, warn |-> warn, reads |-> reads]
        ELSE [cover |-> IF Truthy(manifestCover) THEN manifestCover.v ELSE <<>>,
              threw |-> FALSE, warn |-> warn, reads |-> reads]

\* "Determine cover: explicit > manifest > none".  The manifest is read only
\* without an explicit cover; isValidUrl is called on whatever truthy value
\* the manifest's cover field holds.
ResolveCover(explicitCover, src, file) ==
    IF explicitCover # <<>>
    THEN [cover |-> explicitCover, threw |-> FALSE, warn |-> <<>>, reads |-> <<>>]
    ELSE
    LET manifestCover == readManifestCover(src, file)
        reads == <<[path |-> ManifestPath(src), file |-> file]>>
        warn == IF file.state \in {"unreadable", "not-json", "json-null"}
                THEN <<"comic: failed to read manifest">> ELSE <<>>
    IN  IF Truthy(manifestCover) /\ isValidUrlThrows(manifestCover)
        THEN [cover |-> <<>>, threw |-> TRUE, warn |-> warn, reads |-> reads]
        ELSE [cover |-> IF Truthy(manifestCover) /\ isValidUrl(manifestCover)
                        THEN manifestCover.v ELSE <<>>,
              threw |-> FALSE, warn |-> warn, reads |-> reads]

\* The visitor of remarkComic on one node, with the state of the manifest
\* file its src names.
comicVisitor(node, file) ==
    IF ~(node.type = "leafDirective" /\ node.name = "comic") THEN Visited(node, <<>>)
    ELSE
    LET attributes == node.attributes
        id == sanitizeText(attributes["id"])
        name == sanitizeText(attributes["name"])
        src == TrimOrEmpty(attributes["src"])
        author == sanitizeText(attributes["author"])
        explicitCover == TrimOrEmpty(attributes["cover"])
        rejection == ComicRejection(id, name, src, explicitCover)
    IN  IF rejection # "" THEN Rejected(node, rejection)
        ELSE
        LET resolved == ResolveCover(explicitCover, src, file)
            cover == resolved.cover
            data == [present |-> TRUE, hName |-> "div",
                     hProperties |-> ComicProps(id, name, src, author, cover),
                     hChildren |-> ComicCard(name, author, cover)]
        IN  IF resolved.threw
            THEN [node |-> node, threw |-> TRUE, warn |-> resolved.warn,
                  reads |-> resolved.reads]
            ELSE [node |-> [node EXCEPT !.data = data], threw |-> FALSE,
                  warn |-> resolved.warn, reads |-> resolved.reads]

---------------------------------------------------------------------------
(* remark-video.ts (Artplayer placeholder) and the native <video> lowering *)

\* remark-video.ts parseBooleanAttr
parseBooleanAttr(value) ==
    value # Undef /\ value # Null /\ value # Str(<<"false">>)

\* The native lowering's parseBooleanAttr: null is not excluded.
parseBooleanAttrNative(value) ==
    value # Undef /\ value # Str(<<"false">>)

\* A default that needs the attribute to be present.
DefaultsTrueMutPresence(value) == value # Undef /\ value # Str(<<"false">>)

\* `attributes.controls !== 'false'`, `attributes.playsinline !== 'false'`
DefaultsTrue(value) == value # Str(<<"false">>)

FigureProps == [class |-> "markdown-video-wrapper"]

\* A validation that accepts every poster.
VideoRejectionMutNoPosterCheck(src, poster) ==
    IF src = <<>> THEN "video: missing src"
    ELSE IF ~isValidUrl(Str(src)) THEN "video: invalid src"
    ELSE ""

\* The validation both video visitors make, in their order: "" when the
\* directive passes, otherwise the diagnostic.
VideoRejection(src, poster) ==
    IF src = <<>> THEN "video: missing src"
    ELSE IF ~isValidUrl(Str(src)) THEN "video: invalid src"
    ELSE IF poster # <<>> /\ ~isValidUrl(Str(poster)) THEN "video: invalid poster"
    ELSE ""

\* The visitor of remark-video.ts on one node.
videoVisitor(node) ==
    IF ~(node.type = "leafDirective" /\ node.name = "video") THEN Visited(node, <<>>)
    ELSE
    LET attributes == node.attributes
        src == TrimOrEmpty(attributes["src"])
        poster == TrimOrEmpty(attributes["poster"])
        autoplay == parseBooleanAttr(attributes["autoplay"])
        loop == parseBooleanAttr(attributes["loop"])
        muted == parseBooleanAttr(attributes["muted"])
        rejection == VideoRejection(src, poster)
    IN  IF rejection # "" THEN Rejected(node, rejection)
        ELSE
        LET containerProps ==
                (IF muted THEN [dataVideoMuted |-> "true"] ELSE <<>>)
                @@ (IF loop THEN [dataVideoLoop |-> "true"] ELSE <<>>)
                @@ (IF autoplay THEN [dataVideoAutoplay |-> "true"] ELSE <<>>)
                @@ (IF poster # <<>> THEN [dataVideoPoster |-> poster] ELSE <<>>)
                @@ [class |-> "artplayer-container", dataVideoSrc |-> src]
            data == [present |-> TRUE, hName |-> "figure", hProperties |-> FigureProps,
                     hChildren |-> <<[tagName |-> "div", properties |-> containerProps]>>]
        IN Visited([node EXCEPT !.data = data], <<>>)

\* The visitor of the native lowering on one node.
videoVisitorNative(node) ==
    IF ~(node.type = "leafDirective" /\ node.name = "video") THEN Visited(node, <<>>)
    ELSE
    LET attributes == node.attributes
        src == TrimOrEmpty(attributes["src"])
        poster == TrimOrEmpty(attributes["poster"])
        autoplay == parseBooleanAttrNative(attributes["autoplay"])
        loop == parseBooleanAttrNative(attributes["loop"])
        muted == parseBooleanAttrNative(attributes["muted"])
        controls == DefaultsTrue(attributes["controls"])
        playsinline == DefaultsTrue(attributes["playsinline"])
        rejection == VideoRejection(src, poster)
    IN  IF rejection # "" THEN Rejected(node, rejection)
        ELSE
        LET videoProperties ==
                (IF muted THEN [muted |-> TRUE] ELSE <<>>)
                @@ (IF loop THEN [loop |-> TRUE] ELSE <<>>)
                @@ (IF autoplay THEN [autoplay |-> TRUE] ELSE <<>>)
                @@ (IF playsinline THEN [playsinline |-> TRUE] ELSE <<>>)
                @@ (IF controls THEN [controls |-> TRUE] ELSE <<>>)
                @@ (IF poster # <<>> THEN [poster |-> poster] ELSE <<>>)
                @@ [src |-> src, class |-> "markdown-video"]
            data == [present |-> TRUE, hName |-> "figure", hProperties |-> FigureProps,
                     hChildren |-> <<[tagName |-> "video", properties |-> videoProperties]>>]
        IN Visited([node EXCEPT !.data = data], <<>>)

---------------------------------------------------------------------------
(* The GitHub-alert rewriter                                               *)

ALERT_TYPES ==
    [note |-> "NOTE", tip |-> "TIP", important |-> "IMPORTANT",
     warning |-> "WARNING", caution |-> "CAUTION"]

ICON_SVGS ==
    [note |-> "svg-note", tip |-> "svg-tip", important |-> "svg-important",
     warning |-> "svg-warning", caution |-> "svg-caution"]

\* The letter runs a directive name or an alert marker is written with.
NameWords == {"note", "NOTE", "Tip", "warning", "details", "BOGUS", "constructor"}

\* String.prototype.toLowerCase on a letter run.
toLowerCase(w) ==
    CASE w = "NOTE" -> "note"
      [] w = "Tip" -> "tip"
      [] w = "BOGUS" -> "bogus"
      [] w = "Video" -> "video"
      [] w = ".JPG" -> ".jpg"
      [] w = "A" -> "a"
      [] w = "C" -> "c"
      [] w = "Tags" -> "tags"
      [] w = "U+212A" -> "k"
      [] OTHER -> w

\* The lower-case names every object literal inherits from Object.prototype.
ObjectPrototypeKeys == {"constructor", "__proto__"}

\* `key in table`: own and inherited properties alike.
HasProperty(table, key) == key \in DOMAIN table \/ key \in ObjectPrototypeKeys

\* `${table[key]}` in a template literal.
PropertyText(table, key) ==
    IF key \in DOMAIN table THEN table[key]
    ELSE IF key = "constructor" THEN "function Object() { [native code] }"
    ELSE "[object Object]"

WordSymbols == Letters \cup NameWords

\* The end of the match of /^\[!(\w+)\]\s*/ in text before \s*, or 0.
MarkerEnd(text) ==
    IF Len(text) < 3 \/ text[1] # "[!" \/ text[2] \notin WordSymbols THEN 0
    ELSE LET stops == {j \in 3..Len(text) : text[j] \notin WordSymbols}
         IN IF stops = {} THEN 0
            ELSE LET j == CHOOSE m \in stops : \A h \in stops : m <= h
                 IN IF text[j] = "]" THEN j ELSE 0

\* parseGitHubAlertType: "" stands for null.  A run of two or more letter
\* symbols is a word that is no key of any table.
parseGitHubAlertType(text) ==
    LET end == MarkerEnd(text)
    IN IF end = 0 THEN ""
       ELSE LET type == IF end = 3 THEN toLowerCase(text[2]) ELSE "(other word)"
            IN IF HasProperty(ALERT_TYPES, type) THEN type ELSE ""

\* A replacement that strips the marker and leaves the white space after it.
StripMarkerMutKeepSpace(text) ==
    LET end == MarkerEnd(text)
    IN IF end = 0 THEN text ELSE SubSeq(text, end + 1, Len(text))

\* value.replace(/^\[!\w+\]\s*/, '')
StripMarker(text) ==
    LET end == MarkerEnd(text)
    IN IF end = 0 THEN text ELSE TrimStart(SubSeq(text, end + 1, Len(text)))

AlertClass(alertType) == [class |-> <<"admonition bdm-", alertType>>]

\* The first visitor of remarkGitHubAlerts (blockquotes) on one node.
blockquoteVisitor(node) ==
    IF node.type # "blockquote" THEN Visited(node, <<>>)
    ELSE IF Len(node.children) = 0 THEN Visited(node, <<>>)
    ELSE IF node.children[1].type # "paragraph" THEN Visited(node, <<>>)
    ELSE IF Len(node.children[1].inl) = 0 THEN Visited(node, <<>>)
    ELSE IF node.children[1].inl[1].type # "text" THEN Visited(node, <<>>)
    ELSE
    LET paragraph == node.children[1]
        firstText == paragraph.inl[1]
        alertType == parseGitHubAlertType(firstText.value)
    IN  IF alertType = "" THEN Visited(node, <<>>)
        ELSE
        LET remaining == StripMarker(firstText.value)
            children ==
                IF Trim(remaining) # <<>>
                THEN [node.children EXCEPT ![1].inl[1].value = remaining]
                ELSE IF Len(paragraph.inl) = 1
                     THEN Tail(node.children)
                     ELSE [node.children EXCEPT ![1].inl = Tail(paragraph.inl)]
            titleNode == TitleNode(PropertyText(ICON_SVGS, alertType),
                                   PropertyText(ALERT_TYPES, alertType), Undef)
        IN Visited([node EXCEPT
                        !.data.present = TRUE,
                        !.data.hProperties = AlertClass(alertType),
                        !.children = <<titleNode>> \o children], <<>>)

\* firstPara.children.filter(text).map(value).join('')
RECURSIVE JoinText(_)
JoinText(inl) ==
    IF inl = <<>> THEN <<>>
    ELSE (IF Head(inl).type = "text" THEN Head(inl).value ELSE <<>>) \o JoinText(Tail(inl))

\* The second visitor of remarkGitHubAlerts (container directives) on one node.
directiveVisitor(node) ==
    IF node.type # "containerDirective" THEN Visited(node, <<>>)
    ELSE
    LET name == toLowerCase(node.name)
    IN  IF ~HasProperty(ALERT_TYPES, name) THEN Visited(node, <<>>)
        ELSE
        LET hasLabel == /\ Len(node.children) > 0
                        /\ node.children[1].type = "paragraph"
                        /\ node.children[1].directiveLabel
            customTitle == IF hasLabel THEN JoinText(node.children[1].inl) ELSE <<>>
            children == IF hasLabel THEN Tail(node.children) ELSE node.children
            titleNode ==
                IF customTitle # <<>>
                THEN TitleNode(PropertyText(ICON_SVGS, name), "", Str(customTitle))
                ELSE TitleNode(PropertyText(ICON_SVGS, name),
                               PropertyText(ALERT_TYPES, name), Undef)
        IN Visited([node EXCEPT
                        !.data.present = TRUE,
                        !.data.hName = "blockquote",
                        !.data.hProperties = AlertClass(name),
                        !.children = <<titleNode>> \o children], <<>>)

---------------------------------------------------------------------------
(* The documents the passes are run on.                                    *)

TextValues ==
    {Undef, Str(<<"a">>), Str(<<"<", "a", ">">>), Str(<<" ", "<", "a", ">", "a">>)}

IdValues == {Undef, Str(<<"<", "a", ">">>), Str(<<" ", "<", "a", ">", "a">>)}

SrcValues ==
    {Undef, Str(<<" ">>), Str(<<" ", "/", "x", " ">>), Str(<<"javascript", ":", "x">>),
     Str(<<"https", ":", "/", "/", "x">>), Str(<<"/", "..", "/", "x">>),
     Str(<<"/", "x", "/", "..", "/", "x">>),
     Str(<<"https", ":", "/", "/", "x", "/", "..", "/", "..", "/", "..", "/", "x">>)}

UrlValues ==
    {Undef, Str(<<" ">>), Str(<<"/", "x", " ">>), Str(<<"javascript", ":", "x">>)}

FlagValues == {Undef, Null, Str(<<>>), Str(<<"false">>)}

ComicNodes ==
    {Node("leafDirective", "comic",
          ("id" :> id) @@ ("name" :> name) @@ ("src" :> src) @@ ("author" :> author)
              @@ ("cover" :> cover) @@ NoAttrs, <<>>) :
        id \in IdValues, name \in TextValues, src \in SrcValues,
        author \in TextValues, cover \in UrlValues}

\* Video directives: every src and poster with some flags, and accepted
\* directives with every value of controls and playsinline.
VideoAttrs(src, poster, flags, controls, playsinline) ==
    ("src" :> src) @@ ("poster" :> poster) @@ ("autoplay" :> flags[1])
        @@ ("loop" :> flags[2]) @@ ("muted" :> flags[3]) @@ ("controls" :> controls)
        @@ ("playsinline" :> playsinline) @@ NoAttrs

VideoNodes ==
    {Node("leafDirective", "video", VideoAttrs(src, poster, flags, Undef, Undef), <<>>) :
        src \in SrcValues, poster \in UrlValues,
        flags \in FlagValues \X {Undef, Null} \X {Str(<<>>), Str(<<"false">>)}}
    \cup
    {Node("leafDirective", "video", VideoAttrs(src, poster, flags, controls, playsinline), <<>>) :
        src \in {Str(<<" ", "/", "x", " ">>)}, poster \in {Undef, Str(<<"/", "x", " ">>)},
        flags \in {<<Undef, Undef, Undef>>, <<Str(<<"false">>), Str(<<>>), Null>>},
        controls \in {Undef, Str(<<>>), Str(<<"false">>), Str(<<"true">>)},
        playsinline \in {Undef, Str(<<"false">>), Str(<<"x">>)}}

LabelInlines ==
    {<<>>, <<TextNode(<<"a">>)>>, <<TextNode(<<"<", "a", ">", "a">>)>>,
     <<TextNode(<<"a">>), Emphasis, TextNode(<<"&lt;", "a">>)>>, <<Emphasis>>}

Bodies == {<<>>, <<Paragraph(<<TextNode(<<"a">>)>>)>>, <<Code, Paragraph(<<TextNode(<<"a">>)>>)>>}

ContainerChildren ==
    Bodies \cup {<<LabelParagraph(inl)>> \o body : inl \in LabelInlines, body \in Bodies}

ContainerNodes ==
    {Node("containerDirective", name, NoAttrs, children) :
        name \in NameWords, children \in ContainerChildren}

MarkerTexts ==
    {<<"[!", w, "]">> : w \in NameWords}
        \cup {<<"[!", "NOTE", "]", " ", "a">>, <<"[!", "Tip", "]", "\n", "a", " ">>,
              <<"[!", "note", "]", " ", "\n">>, <<"[!", "NOTE", "a", "]">>,
              <<"[!", "NOTE">>, <<"a", "[!", "NOTE", "]">>, <<" ", "[!", "NOTE", "]">>,
              <<"[!", "]">>, <<"a">>}

BlockquoteChildren ==
    {<<>>, <<Code, Paragraph(<<TextNode(<<"[!", "NOTE", "]">>)>>)>>,
     <<Paragraph(<<>>)>>, <<Paragraph(<<Emphasis, TextNode(<<"[!", "NOTE", "]">>)>>)>>}
        \cup {<<Paragraph(<<TextNode(t)>> \o more)>> \o body :
                t \in MarkerTexts, more \in {<<>>, <<Emphasis>>}, body \in Bodies}

BlockquoteNodes ==
    {Node("blockquote", "", NoAttrs, children) : children \in BlockquoteChildren}

\* Nodes of other variants and names, which no pass matches.
OtherNodes ==
    {Node("paragraph", "", NoAttrs, <<>>),
     Node("containerDirective", "video", ("src" :> Str(<<"/", "x">>)) @@ NoAttrs, <<>>),
     Node("textDirective", "comic", NoAttrs, <<>>),
     Node("leafDirective", "Video", ("src" :> Str(<<"/", "x">>)) @@ NoAttrs, <<>>),
     Node("leafDirective", "note", NoAttrs, <<>>)}

\* The nodes documents of several nodes are built from.
CoreNodes ==
    {Node("leafDirective", "comic",
          ("id" :> Str(<<"a">>)) @@ ("name" :> Str(<<"a">>))
              @@ ("src" :> Str(<<"/", "x">>)) @@ NoAttrs, <<>>),
     Node("leafDirective", "comic",
          ("id" :> Str(<<"a">>)) @@ ("src" :> Str(<<"/", "x">>)) @@ NoAttrs, <<>>),
     Node("leafDirective", "video", ("src" :> Str(<<"/", "x">>)) @@ NoAttrs, <<>>),
     Node("leafDirective", "video",
          ("src" :> Str(<<"javascript", ":", "x">>)) @@ NoAttrs, <<>>),
     Node("containerDirective", "note", NoAttrs, <<Paragraph(<<TextNode(<<"a">>)>>)>>),
     Node("blockquote", "", NoAttrs, <<Paragraph(<<TextNode(<<"[!", "Tip", "]", "a">>)>>)>>),
     Node("paragraph", "", NoAttrs, <<>>)}

\* Alerts of both syntaxes with a ::video directive inside them.
NestedVideo == Node("leafDirective", "video", ("src" :> Str(<<"/", "x">>)) @@ NoAttrs, <<>>)

NestedNodes ==
    {Node("containerDirective", "note", NoAttrs, label \o <<Paragraph(<<TextNode(<<"a">>)>>), NestedVideo>>) :
        label \in {<<>>, <<LabelParagraph(<<TextNode(<<"a">>)>>)>>}}
    \cup
    {Node("blockquote", "", NoAttrs, <<Paragraph(<<TextNode(t)>>), NestedVideo>>) :
        t \in {<<"[!", "Tip", "]", "a">>, <<"[!", "Tip", "]">>, <<"a">>}}
    \cup
    {Node("containerDirective", "details", NoAttrs, <<NestedVideo>>)}

SingleNodes(nodes) == {<<n>> : n \in nodes}

---------------------------------------------------------------------------
(* The passes.  Each pass is one traversal (the alert rewriter: two, one    *)
(* after the other); a step is one call of the visitor.  A site is built   *)
(* with one of the two video lowerings.                                    *)

Passes == {"comic", "video", "videoNative", "alerts"}

Init ==
    /\ \/ tree0 \in SingleNodes(ComicNodes)
       \/ tree0 \in SingleNodes(VideoNodes)
       \/ tree0 \in SingleNodes(ContainerNodes)
       \/ tree0 \in SingleNodes(BlockquoteNodes)
       \/ tree0 \in SingleNodes(OtherNodes)
       \/ tree0 \in SingleNodes(NestedNodes)
       \/ tree0 \in SeqsUpTo(CoreNodes, MaxNodes)
    /\ tree = tree0
    /\ pass = "idle"
    /\ idx = 1
    /\ ran = {}
    /\ warnings = <<>>
    /\ fsReads = <<>>
    /\ fPc = "off" /\ fArg = Undef /\ fRes = Undef /\ fPrev = Undef
    /\ OthersIdle

StartPass(p) ==
    /\ pass = "idle"
    /\ p \notin ran
    /\ p \in {"video", "videoNative"} => ran \cap {"video", "videoNative"} = {}
    /\ pass' = (IF p = "alerts" THEN "alerts-blockquote" ELSE p)
    /\ idx' = 1
    /\ UNCHANGED <<tree0, tree, ran, warnings, fsReads, fvars, ovars>>

\* visit(tree, visitor) below one root child, in preorder: the visitor is
\* called on the node, then on the children the node has after that call.
\* A throw ends the traversal.
VisitorOf(p, file, node) ==
    CASE p = "comic" -> comicVisitor(node, file)
      [] p = "video" -> videoVisitor(node)
      [] p = "videoNative" -> videoVisitorNative(node)
      [] p = "alerts-blockquote" -> blockquoteVisitor(node)
      [] p = "alerts-directive" -> directiveVisitor(node)

\* A traversal that does not go below a node an earlier pass has lowered.
DescendsMutSkipLowered(node, top) ==
    ~ top.threw /\ "children" \in DOMAIN top.node /\ ~ node.data.present

\* After the visitor has returned on node, the traversal goes on into the
\* children the node has then.
Descends(node, top) == ~ top.threw /\ "children" \in DOMAIN top.node

\* The traversal at one node and below it, given what the visitor returned
\* on the node (top) and what the traversal made of the children the node
\* had then (below).
Visiting(node, top, below) ==
    IF Descends(node, top)
    THEN [node |-> [top.node EXCEPT !.children = below.nodes],
          threw |-> below.threw,
          warn |-> top.warn \o below.warn,
          reads |-> top.reads \o below.reads]
    ELSE top

\* The traversal over siblings: first is the traversal at the first of
\* them, rest the traversal over the others, which a throw does not reach.
Siblings(nodes, first, rest) ==
    IF first.threw
    THEN [nodes |-> <<first.node>> \o Tail(nodes), threw |-> TRUE,
          warn |-> first.warn, reads |-> first.reads]
    ELSE [nodes |-> <<first.node>> \o rest.nodes, threw |-> rest.threw,
          warn |-> first.warn \o rest.warn,
          reads |-> first.reads \o rest.reads]

\* The children the traversal goes into after the visitor has returned.
ChildrenBelow(node, top) == IF Descends(node, top) THEN top.node.children ELSE <<>>

\* The traversal over a list of siblings, each with what lies below it.
RECURSIVE VisitAll(_, _, _)
VisitAll(p, file, nodes) ==
    IF nodes = <<>> THEN [nodes |-> <<>>, threw |-> FALSE, warn |-> <<>>, reads |-> <<>>]
    ELSE Siblings(nodes,
                  Visiting(Head(nodes), VisitorOf(p, file, Head(nodes)),
                           VisitAll(p, file,
                                    ChildrenBelow(Head(nodes),
                                                  VisitorOf(p, file, Head(nodes))))),
                  VisitAll(p, file, Tail(nodes)))

\* The traversal at one node and below it.
VisitDeep(p, file, node) ==
    LET visited == VisitAll(p, file, <<node>>)
    IN [node |-> visited.nodes[1], threw |-> visited.threw, warn |-> visited.warn,
        reads |-> visited.reads]

\* The effect on the traversal of the visitor calls at and below one root child.
Step(result) ==
    /\ tree' = [tree EXCEPT ![idx] = result.node]
    /\ warnings' = warnings \o result.warn
    /\ fsReads' = fsReads \o [i \in 1..Len(result.reads) |->
                                [node |-> idx, path |-> result.reads[i].path,
                                 file |-> result.reads[i].file]]
    /\ IF result.threw
       THEN pass' = "threw" /\ idx' = idx
       ELSE pass' = pass /\ idx' = idx + 1
    /\ UNCHANGED <<tree0, ran, fvars, ovars>>

VisitComic ==
    /\ pass = "comic" /\ idx <= Len(tree)
    /\ \E file \in ManifestFiles :
          Step(VisitDeep("comic", file, tree[idx]))

VisitVideo ==
    /\ pass = "video" /\ idx <= Len(tree)
    /\ Step(VisitDeep("video", Undef, tree[idx]))

VisitVideoNative ==
    /\ pass = "videoNative" /\ idx <= Len(tree)
    /\ Step(VisitDeep("videoNative", Undef, tree[idx]))

VisitBlockquote ==
    /\ pass = "alerts-blockquote" /\ idx <= Len(tree)
    /\ Step(VisitDeep("alerts-blockquote", Undef, tree[idx]))

\* The first traversal of remarkGitHubAlerts returns; the second starts.
StartDirectiveVisit ==
    /\ pass = "alerts-blockquote" /\ idx > Len(tree)
    /\ pass' = "alerts-directive"
    /\ idx' = 1
    /\ UNCHANGED <<tree0, tree, ran, warnings, fsReads, fvars, ovars>>

VisitDirective ==
    /\ pass = "alerts-directive" /\ idx <= Len(tree)
    /\ Step(VisitDeep("alerts-directive", Undef, tree[idx]))

PassOf(p) == IF p = "alerts-directive" THEN "alerts" ELSE p

EndPass ==
    /\ pass \in {"comic", "video", "videoNative", "alerts-directive"}
    /\ idx > Len(tree)
    /\ ran' = ran \cup {PassOf(pass)}
    /\ pass' = "idle"
    /\ idx' = 1
    /\ UNCHANGED <<tree0, tree, warnings, fsReads, fvars, ovars>>

Next ==
    \/ \E p \in Passes : StartPass(p)
    \/ VisitComic
    \/ VisitVideo
    \/ VisitVideoNative
    \/ VisitBlockquote
    \/ StartDirectiveVisit
    \/ VisitDirective
    \/ EndPass

Spec == Init /\ [][Next]_vars

---------------------------------------------------------------------------
(* The pure-function bench: an argument is drawn, then one of the           *)
(* validator functions is applied to it.                                   *)

TextInputs == {Str(s) : s \in SeqsUpTo(TextAlphabet, MaxTextLen)}
UrlInputs == {Str(s) : s \in SeqsUpTo(UrlAlphabet, MaxUrlLen)}

\* Values of a boolean attribute: `autoplay` (bare), autoplay="true", ="false", ="0".
FlagInputs == {Str(<<>>), Str(<<"true">>), Str(<<"false">>), Str(<<"0">>)}

FnInit ==
    /\ fPc = "start"
    /\ \/ fArg \in {Undef, Null}
       \/ fArg \in TextInputs
       \/ fArg \in UrlInputs
       \/ fArg \in FlagInputs
    /\ fRes = Undef
    /\ fPrev = Undef
    /\ tree0 = <<>> /\ tree = <<>> /\ pass = "off" /\ idx = 1 /\ ran = {}
    /\ warnings = <<>> /\ fsReads = <<>>
    /\ OthersIdle

CallSanitizeText ==
    /\ fPc = "start"
    /\ fPc' = "sanitized"
    /\ fRes' = Str(sanitizeText(fArg))
    /\ fPrev' = fRes
    /\ UNCHANGED <<fArg, pvars, ovars>>

CallSanitizeTextAgain ==
    /\ fPc = "sanitized"
    /\ fPc' = "resanitized"
    /\ fRes' = Str(sanitizeText(fRes))
    /\ fPrev' = fRes
    /\ UNCHANGED <<fArg, pvars, ovars>>

CallIsValidUrl ==
    /\ fPc = "start"
    /\ fPc' = "validated"
    /\ fRes' = isValidUrl(fArg)
    /\ fPrev' = fRes
    /\ UNCHANGED <<fArg, pvars, ovars>>

CallParseBooleanAttr ==
    /\ fPc = "start"
    /\ fPc' = "parsedBoolean"
    /\ fRes' = parseBooleanAttr(fArg)
    /\ fPrev' = fRes
    /\ UNCHANGED <<fArg, pvars, ovars>>

CallParseBooleanAttrNative ==
    /\ fPc = "start"
    /\ fPc' = "parsedBooleanNative"
    /\ fRes' = parseBooleanAttrNative(fArg)
    /\ fPrev' = fRes
    /\ UNCHANGED <<fArg, pvars, ovars>>

FnNext ==
    \/ CallSanitizeText
    \/ CallSanitizeTextAgain
    \/ CallIsValidUrl
    \/ CallParseBooleanAttr
    \/ CallParseBooleanAttrNative

FnSpec == FnInit /\ [][FnNext]_vars

---------------------------------------------------------------------------
(* rehype-image-placeholder.ts: the image-wrap pass over a hast tree.      *)
(* The tree is one parent (the root or an element) with its children; a    *)
(* child that is an element may hold children of its own.  A class string  *)
(* is the sequence of its space-separated tokens.                          *)

ClassTokens == {"hero", "comic-card-cover-preview", "comic-card-cover-preview-large"}

\* token.includes('comic-card-cover-preview')
IncludesMarker(token) ==
    token \in {"comic-card-cover-preview", "comic-card-cover-preview-large"}

NoClass == [k |-> "undefined", v |-> <<>>]
ClassString(tokens) == [k |-> "string", v |-> tokens]
ClassArray(tokens) == [k |-> "array", v |-> tokens]

HastProps(src, class) == [src |-> src, class |-> class, loading |-> "", decoding |-> ""]

Element(tagName, properties, children) ==
    [type |-> "element", tagName |-> tagName, properties |-> properties,
     children |-> children]

HastText == [type |-> "text", tagName |-> "", properties |-> HastProps(Undef, NoClass),
             children |-> <<>>]

HastRoot(children) ==
    [type |-> "root", tagName |-> "", properties |-> HastProps(Undef, NoClass),
     children |-> children]

Img(src, class) == Element("img", HastProps(src, class), <<>>)

\* src.lastIndexOf('#'), or 0 when src holds no "#".
LastIndexOf(s, c) ==
    LET hits == {j \in 1..Len(s) : s[j] = c}
    IN IF hits = {} THEN 0 ELSE CHOOSE j \in hits : \A h \in hits : h <= j

\* Array.isArray(classValue) ? classValue.join(' ') : typeof classValue ===
\* 'string' ? classValue : ''
existingClassOf(classValue) ==
    IF classValue.k \in {"array", "string"} THEN classValue.v ELSE <<>>

\* A visitor that strips the fragment only when it is #center.
imageVisitorMutCenterOnly(node, parent) ==
    IF node.type # "element" \/ node.tagName # "img" THEN node
    ELSE IF parent.type = "element" /\ parent.tagName \in {"figure", "a"} THEN node
    ELSE
    LET src == node.properties.src
        hashIndex == IF IsStr(src) THEN LastIndexOf(src.v, "#") ELSE 0
        centered == hashIndex > 0
                       /\ SubSeq(src.v, hashIndex + 1, Len(src.v)) = <<"center">>
    IN Element("figure",
               HastProps(Undef, ClassString(<<"markdown-image-wrapper">>
                            \o (IF centered THEN <<"centered">> ELSE <<>>))),
               <<[node EXCEPT
                    !.properties.src =
                        IF centered THEN Str(SubSeq(src.v, 1, hashIndex - 1)) ELSE src,
                    !.properties.loading = "lazy",
                    !.properties.decoding = "async"]>>)

\* A visitor without the test for a figure parent.
imageVisitorMutNoFigureSkip(node, parent) ==
    IF node.tagName # "img" THEN node
    ELSE
    LET existingClass == existingClassOf(node.properties.class)
    IN  IF \E j \in 1..Len(existingClass) : IncludesMarker(existingClass[j]) THEN node
        ELSE IF parent.type = "element" /\ parent.tagName = "a"
        THEN [node EXCEPT !.properties.loading = "lazy",
                          !.properties.decoding = "async"]
        ELSE
        LET src == node.properties.src
            hashIndex == IF IsStr(src) THEN LastIndexOf(src.v, "#") ELSE 0
            hash == IF hashIndex > 0 THEN SubSeq(src.v, hashIndex + 1, Len(src.v))
                    ELSE <<>>
            newSrc == IF hashIndex > 0 THEN Str(SubSeq(src.v, 1, hashIndex - 1)) ELSE src
            wrapperClass == <<"markdown-image-wrapper">>
                               \o (IF hashIndex > 0 /\ hash = <<"center">>
                                   THEN <<"centered">> ELSE <<>>)
            img == [node EXCEPT
                        !.properties.src = newSrc,
                        !.properties.loading = "lazy",
                        !.properties.decoding = "async",
                        !.properties.class =
                            ClassString(existingClass \o <<"markdown-image">>)]
        IN Element("figure", HastProps(Undef, ClassString(wrapperClass)), <<img>>)

\* The visitor of rehypeImagePlaceholder on one element: what stands at the
\* node's index of parent.children when it returns.
imageVisitor(node, parent) ==
    IF node.tagName # "img" THEN node
    ELSE IF parent.type = "element" /\ parent.tagName = "figure" THEN node
    ELSE
    LET existingClass == existingClassOf(node.properties.class)
    IN  IF \E j \in 1..Len(existingClass) : IncludesMarker(existingClass[j]) THEN node
        ELSE IF parent.type = "element" /\ parent.tagName = "a"
        THEN [node EXCEPT !.properties.loading = "lazy",
                          !.properties.decoding = "async"]
        ELSE
        LET src == node.properties.src
            hashIndex == IF IsStr(src) THEN LastIndexOf(src.v, "#") ELSE 0
            hash == IF hashIndex > 0 THEN SubSeq(src.v, hashIndex + 1, Len(src.v))
                    ELSE <<>>
            newSrc == IF hashIndex > 0 THEN Str(SubSeq(src.v, 1, hashIndex - 1)) ELSE src
            wrapperClass == <<"markdown-image-wrapper">>
                               \o (IF hashIndex > 0 /\ hash = <<"center">>
                                   THEN <<"centered">> ELSE <<>>)
            img == [node EXCEPT
                        !.properties.src = newSrc,
                        !.properties.loading = "lazy",
                        !.properties.decoding = "async",
                        !.properties.class =
                            ClassString(existingClass \o <<"markdown-image">>)]
        IN Element("figure", HastProps(Undef, ClassString(wrapperClass)), <<img>>)

\* visit(tree, 'element', visitor) below parent: the visitor is called on an
\* element, and the traversal goes on into the children of the node it was
\* called on, never into a wrapper put in its place (an img has no children).
RECURSIVE visitElements(_, _)
visitElements(node, parent) ==
    LET seen == IF node.type = "element" THEN imageVisitor(node, parent) ELSE node
    IN  IF node.children = <<>> THEN seen
        ELSE [seen EXCEPT !.children =
                 [i \in DOMAIN node.children |-> visitElements(node.children[i], node)]]

\* One run of the plugin on a tree, as a function of the tree.
rehypeImagePlaceholder(t) ==
    [t EXCEPT !.children = [i \in DOMAIN t.children |-> visitElements(t.children[i], t)]]

\* The hast trees the pass is run on.  Image URLs are written with "/", "#"
\* and the letter runs "x" and "center".
ImgSrcs ==
    {Undef, Str(<<"/", "x">>), Str(<<"/", "x", "#", "center">>), Str(<<"/", "x", "#", "x">>),
     Str(<<"/", "x", "#">>), Str(<<"/", "#", "x", "#", "center">>),
     Str(<<"/", "x", "#", "center", "x">>), Str(<<"/", "#", "center", "#", "x">>)}

ImgClasses ==
    {NoClass, ClassString(<<>>), ClassString(<<"hero">>), ClassArray(<<"hero", "hero">>),
     ClassString(<<"comic-card-cover-preview">>),
     ClassArray(<<"hero", "comic-card-cover-preview">>),
     ClassString(<<"comic-card-cover-preview-large">>)}

Imgs == {Img(src, class) : src \in ImgSrcs, class \in ImgClasses}

ParentTags == {"p", "a", "figure", "div"}

\* Elements that hold images of their own.
Holders ==
    {Element(tag, HastProps(Undef, NoClass), <<img>>) :
        tag \in ParentTags,
        img \in {Img(Str(<<"/", "x", "#", "center">>), NoClass),
                 Img(Str(<<"/", "x">>), ClassString(<<"comic-card-cover-preview">>))}}

CoreHastNodes ==
    {HastText,
     Img(Str(<<"/", "x", "#", "center">>), ClassString(<<"hero">>)),
     Img(Str(<<"/", "x">>), NoClass),
     Element("a", HastProps(Undef, NoClass), <<Img(Str(<<"/", "x", "#", "x">>), NoClass)>>),
     Element("figure", HastProps(Undef, NoClass), <<Img(Str(<<"/", "x">>), NoClass)>>)}

ParentOf(tag, children) ==
    IF tag = "root" THEN HastRoot(children)
    ELSE Element(tag, HastProps(Undef, NoClass), children)

ImgInit ==
    /\ \E tag \in ParentTags \cup {"root"} :
          \/ \E n \in Imgs : tree0 = ParentOf(tag, <<n>>)
          \/ \E n \in Holders : tree0 = ParentOf(tag, <<n>>)
          \/ \E c \in SeqsUpTo(CoreHastNodes, MaxNodes) : tree0 = ParentOf(tag, c)
    /\ tree = tree0
    /\ pass = "imageWrap"
    /\ idx = 1
    /\ sub = 0
    /\ ran = {}
    /\ warnings = <<>>
    /\ fsReads = <<>>
    /\ fPc = "off" /\ fArg = Undef /\ fRes = Undef /\ fPrev = Undef
    /\ GeneratorIdle
    /\ BrowserIdle

\* visit(tree, 'element', visitor) at a child of the parent: the visitor is
\* called on an element; the traversal then descends into the children the
\* visited node has, and otherwise moves to the next sibling.
VisitChild ==
    /\ pass = "imageWrap" /\ sub = 0 /\ idx <= Len(tree.children)
    /\ LET node == tree.children[idx]
       IN /\ tree' = IF node.type = "element"
                     THEN [tree EXCEPT !.children[idx] = imageVisitor(node, tree)]
                     ELSE tree
          /\ IF node.children # <<>>
             THEN idx' = idx /\ sub' = 1
             ELSE idx' = idx + 1 /\ sub' = 0
    /\ UNCHANGED <<tree0, pass, ran, warnings, fsReads, fvars, gvars, bvars>>

\* The same one level down: the node is a child of the child at idx.
VisitGrandchild ==
    /\ pass = "imageWrap" /\ sub > 0
    /\ LET parent == tree.children[idx]
           node == parent.children[sub]
       IN /\ tree' = IF node.type = "element"
                     THEN [tree EXCEPT !.children[idx].children[sub] =
                                            imageVisitor(node, parent)]
                     ELSE tree
          /\ IF sub < Len(parent.children)
             THEN idx' = idx /\ sub' = sub + 1
             ELSE idx' = idx + 1 /\ sub' = 0
    /\ UNCHANGED <<tree0, pass, ran, warnings, fsReads, fvars, gvars, bvars>>

\* visit returns and the plugin with it.
EndImageWrap ==
    /\ pass = "imageWrap" /\ sub = 0 /\ idx > Len(tree.children)
    /\ pass' = "idle"
    /\ ran' = ran \cup {"imageWrap"}
    /\ UNCHANGED <<tree0, tree, idx, sub, warnings, fsReads, fvars, gvars, bvars>>

ImgNext == VisitChild \/ VisitGrandchild \/ EndImageWrap

ImgSpec == ImgInit /\ [][ImgNext]_vars

---------------------------------------------------------------------------
(* generateComicManifests.ts: the manifest generator on one gallery        *)
(* folder.  A folder name and a file name are sequences of symbols; a      *)
(* manifest.json is missing, holds a falsy JSON value, holds an object     *)
(* with the fields of ComicManifest, or holds the text of such an object   *)
(* that JSON.parse rejects.                                                *)

NameSeparators == {"-", "_"}

\* (c) => c.toUpperCase() on the first character of a word.
Capitalize(w) ==
    CASE w = "my" -> "My"
      [] w = "manga" -> "Manga"
      [] OTHER -> w

\* folderName.replace(/[-_]/g, ' ').replace(/\b\w/g, (c) => c.toUpperCase())
folderNameToDisplayName(folderName) ==
    [j \in 1..Len(folderName) |->
        IF folderName[j] \in NameSeparators THEN " " ELSE Capitalize(folderName[j])]

\* `/img/comic/${folder.name}/${file}`
ComicUrl(folderName, file) == <<"/img/comic/">> \o folderName \o <<"/">> \o file

\* A file name is its stem followed by its extension, one symbol each for a
\* run of letters, a run of digits, a separator and the extension.
IMAGE_EXTENSIONS == {".jpg", ".jpeg", ".png", ".webp", ".gif"}

COVER_FILENAMES ==
    {<<"cover", ".jpg">>, <<"cover", ".jpeg">>, <<"cover", ".png">>, <<"cover", ".webp">>}

ExtensionSymbols == IMAGE_EXTENSIONS \cup {".JPG", ".json"}

FileNameLower(filename) == [j \in 1..Len(filename) |-> toLowerCase(filename[j])]

\* path.extname: the extension of a name that has a stem, '' otherwise.
extname(filename) ==
    IF Len(filename) > 1 /\ filename[Len(filename)] \in ExtensionSymbols
    THEN filename[Len(filename)]
    ELSE ""

isImageFile(filename) == toLowerCase(extname(filename)) \in IMAGE_EXTENSIONS

isCoverFile(filename) == FileNameLower(filename) \in COVER_FILENAMES

\* The digit runs of the file names, and parseInt(run, 10).
DigitRuns == {"2", "10"}

parseInt(run) == IF run = "10" THEN 10 ELSE 2

Infinity == [k |-> "infinity", v |-> <<>>]

\* nameWithoutExt.match(/(\d+)(?!.*\d)/): the last digit run of the stem.
extractNumberFromFilename(filename) ==
    LET stemLen == IF extname(filename) = "" THEN Len(filename) ELSE Len(filename) - 1
        runs == {j \in 1..stemLen : filename[j] \in DigitRuns}
    IN IF runs = {} THEN Infinity
       ELSE Num(parseInt(filename[CHOOSE j \in runs : \A i \in runs : i <= j]))

\* The comparator (a, b) => extractNumberFromFilename(a) - extractNumberFromFilename(b):
\* TRUE when it is positive.  Infinity - Infinity is NaN, which sort takes as 0.
ComesAfter(a, b) ==
    LET x == extractNumberFromFilename(a)
        y == extractNumberFromFilename(b)
    IN IF x.k = "infinity" THEN y.k # "infinity"
       ELSE y.k # "infinity" /\ x.v[1] > y.v[1]

\* Array.prototype.sort is stable: a file goes behind every file already
\* placed that the comparator does not put after it.
RECURSIVE SortByNumber(_)
SortByNumber(files) ==
    IF files = <<>> THEN <<>>
    ELSE LET front == SortByNumber(SubSeq(files, 1, Len(files) - 1))
             f == files[Len(files)]
             keep == {j \in 1..Len(front) : ~ComesAfter(front[j], f)}
             cut == IF keep = {} THEN 0 ELSE CHOOSE j \in keep : \A i \in keep : i <= j
         IN SubSeq(front, 1, cut) \o <<f>> \o SubSeq(front, cut + 1, Len(front))

\* scanComicFolders on one directory entry: the ComicFolder it builds
\* (pushed only when it has images).
scanComicFolders(name, files) ==
    LET covers == {j \in 1..Len(files) : isCoverFile(files[j])}
        coverFile == IF covers = {} THEN Null
                     ELSE Str(files[CHOOSE j \in covers : \A i \in covers : j <= i])
        images == SortByNumber(SelectSeq(files, LAMBDA f : isImageFile(f) /\ ~isCoverFile(f)))
    IN [name |-> name, images |-> images, coverFile |-> coverFile,
        hasManifest |-> \E j \in 1..Len(files) : files[j] = <<"manifest", ".json">>]

determineCoverPath(f) ==
    IF f.coverFile # Null THEN ComicUrl(f.name, f.coverFile.v)
    ELSE IF Len(f.images) > 0 THEN ComicUrl(f.name, f.images[1])
    ELSE <<>>

NoManifest == [state |-> "missing"]
FalsyManifest == [state |-> "json-falsy"]

ManifestObject(id, name, author, cover, images) ==
    [state |-> "object", id |-> id, name |-> name, author |-> author, cover |-> cover,
     images |-> images]

\* The text of m with a syntax error in it (a trailing comma, say): the
\* fields are there to read, JSON.parse throws.
Damaged(m) == [m EXCEPT !.state = "not-json"]

\* readExistingManifest: the parsed content, or null.
readExistingManifest(file) ==
    IF file.state \in {"object", "json-falsy"} THEN file ELSE NoManifest

\* `if (existing)`, `existing?.name`, `existing?.author`
ExistingTruthy(existing) == existing.state = "object"
ExistingField(existing, field) ==
    IF existing.state = "object" THEN existing[field] ELSE Undef

\* A generator that writes the manifest anew on every run.
generateManifestMutRewrite(f, force, file) ==
    [file |-> ManifestObject(Str(f.name), Str(folderNameToDisplayName(f.name)), Undef,
                             Str(determineCoverPath(f)),
                             [j \in 1..Len(f.images) |-> ComicUrl(f.name, f.images[j])]),
     generated |-> TRUE]

\* generateManifest(folder, force) with the manifest.json it finds: the
\* file it leaves and the value it returns.
generateManifest(f, force, file) ==
    IF f.hasManifest /\ ~force /\ ExistingTruthy(readExistingManifest(file))
    THEN [file |-> file, generated |-> FALSE]
    ELSE
    LET existing == readExistingManifest(file)
        imageUrls == [j \in 1..Len(f.images) |-> ComicUrl(f.name, f.images[j])]
        coverPath == determineCoverPath(f)
        existingName == ExistingField(existing, "name")
        existingAuthor == ExistingField(existing, "author")
        written ==
            ManifestObject(
                Str(f.name),
                IF Truthy(existingName) THEN existingName
                ELSE Str(folderNameToDisplayName(f.name)),
                IF Truthy(existingAuthor) THEN existingAuthor ELSE Undef,
                IF coverPath # <<>> THEN Str(coverPath) ELSE Undef,
                imageUrls)
    IN [file |-> written, generated |-> TRUE]

\* The folders and manifests the generator is run on.
FolderNames == {<<"manga">>, <<"my", "-", "manga">>, <<"my", "_", "manga">>}

\* The files a gallery folder may hold besides manifest.json, and the
\* listings readdir may return: every subset of them in every order.
FolderFiles ==
    {<<"cover", ".jpg">>, <<"cover", ".gif">>, <<"10", ".JPG">>, <<"page", "_", "2", ".png">>}

Listings ==
    UNION {{l \in [1..n -> FolderFiles] : \A i, j \in 1..n : l[i] = l[j] => i = j} :
             n \in 0..Cardinality(FolderFiles)}

ManifestNames == {Undef, Str(<<>>), Str(<<"My", " ", "Title">>)}

ManifestAuthors == {Undef, Str(<<>>), Str(<<"a">>)}

ManifestObjects(f) ==
    {ManifestObject(Str(f.name), name, author, cover, <<>>) :
        name \in ManifestNames, author \in ManifestAuthors,
        cover \in {Undef, Str(<<"/img/comic/", "old", ".jpg">>)}}

ExistingManifests(f) ==
    {NoManifest, FalsyManifest} \cup ManifestObjects(f)
        \cup {Damaged(m) : m \in ManifestObjects(f)}

GenInit ==
    /\ \E name \in FolderNames, files \in Listings : folder = [name |-> name, files |-> files]
    /\ manifest \in ExistingManifests(folder)
    /\ manifest0 = manifest
    /\ runLog = <<>>
    /\ sub = 0
    /\ tree0 = <<>> /\ tree = <<>> /\ pass = "off" /\ idx = 1 /\ ran = {}
    /\ warnings = <<>> /\ fsReads = <<>>
    /\ fPc = "off" /\ fArg = Undef /\ fRes = Undef /\ fPrev = Undef
    /\ BrowserIdle

\* What readdir returns for the folder: its files, and manifest.json once
\* there is one.
Readdir ==
    IF manifest.state = "missing" THEN folder.files
    ELSE Append(folder.files, <<"manifest", ".json">>)

\* One run of main() over the folder: scanComicFolders, then generateManifest
\* when the scan kept the folder (it has images).
RunGenerator(force) ==
    /\ Len(runLog) < MaxRuns
    /\ LET scanned == scanComicFolders(folder.name, Readdir)
           result == IF Len(scanned.images) > 0
                     THEN generateManifest(scanned, force, manifest)
                     ELSE [file |-> manifest, generated |-> FALSE]
       IN /\ manifest0' = manifest
          /\ manifest' = result.file
          /\ runLog' = Append(runLog, [force |-> force, generated |-> result.generated])
    /\ UNCHANGED <<folder, pvars, fvars, sub, bvars>>

GenNext == \E force \in BOOLEAN : RunGenerator(force)

GenSpec == GenInit /\ [][GenNext]_vars

---------------------------------------------------------------------------
(* image-enhancer.ts: enhanceImages and the PhotoSwipe lightbox on one     *)
(* container.  An image is "pending" until the browser has its data, then  *)
(* "loaded" (load event, natural size above 0), "loadedNoSize" (load       *)
(* event, natural size 0) or "broken" (error event).                       *)

MaxCalls == 2
MaxOpens == 2

ImageIds == {1, 2}

Instance(id) == [k |-> "object", v |-> <<id>>]

\* The build-time programs, which the browser scripts do not run.
BuildIdle ==
    /\ tree0 = <<>> /\ tree = <<>> /\ pass = "off" /\ idx = 1 /\ ran = {}
    /\ warnings = <<>> /\ fsReads = <<>>
    /\ fPc = "off" /\ fArg = Undef /\ fRes = Undef /\ fPrev = Undef
    /\ sub = 0
    /\ GeneratorIdle

\* img.complete, img.naturalWidth > 0
Complete(img) == img.net # "pending"
HasNaturalSize(img) == img.net = "loaded"

\* collectImageSlides: the .markdown-image.loaded elements with a natural size.
collectImageSlides(d) == {i \in DOMAIN d : d[i].loaded /\ HasNaturalSize(d[i])}

\* handleImageLoaded, handleImageError: the class they add.
handleImageLoaded(img) == [img EXCEPT !.loaded = TRUE]
handleImageError(img) == [img EXCEPT !.error = TRUE]

\* checkAllLoaded of one call, given the images as they are then: the count
\* goes up, and groupPortraitImages runs when it has reached totalImages.
checkAllLoaded(call, d) ==
    LET count == call.loadedCount + 1
    IN IF count >= call.totalImages
       THEN [call EXCEPT !.loadedCount = count, !.grouped = @ + 1,
                         !.early = @ \/ \E i \in DOMAIN d : ~Complete(d[i])]
       ELSE [call EXCEPT !.loadedCount = count]

EnhInit ==
    /\ \E images \in {{}, {1}, ImageIds} :
          dom \in [images -> {[net |-> n, loaded |-> FALSE, error |-> FALSE] :
                                n \in {"pending", "loaded", "loadedNoSize", "broken"}}]
    /\ enhancedImages = {} /\ boundContainers = {} /\ calls = <<>>
    /\ listeners = [i \in DOMAIN dom |-> {}]
    /\ photoSwipeInstance = Null /\ isOpening = FALSE /\ opens = <<>>
    /\ instances = <<>> /\ lastClick = "none"
    /\ BuildIdle /\ VideosIdle

\* enhanceImages(container): one call, over the images in document order.
EnhanceImages ==
    /\ Len(calls) < MaxCalls
    /\ LET c == Len(calls) + 1
           images == DOMAIN dom
           skipped == images \cap enhancedImages
           fresh == images \ enhancedImages
           waiting == {i \in fresh : ~Complete(dom[i])}
           dom1 == [i \in images |->
                      IF i \in fresh /\ Complete(dom[i])
                      THEN IF HasNaturalSize(dom[i]) THEN handleImageLoaded(dom[i])
                           ELSE handleImageError(dom[i])
                      ELSE dom[i]]
           counted == Cardinality(images \ waiting)
           total == Cardinality(images)
           runs == total = 0 \/ counted >= total
       IN /\ dom' = dom1
          /\ enhancedImages' = enhancedImages \cup images
          /\ boundContainers' = boundContainers \cup {"container"}
          /\ listeners' = [i \in images |-> IF i \in waiting THEN listeners[i] \cup {c}
                                            ELSE listeners[i]]
          /\ calls' = Append(calls,
                [loadedCount |-> counted, totalImages |-> total,
                 grouped |-> IF runs THEN 1 ELSE 0,
                 early |-> runs /\ \E i \in images : ~Complete(dom1[i])])
    /\ UNCHANGED <<photoSwipeInstance, isOpening, opens, instances, lastClick>>
    /\ UNCHANGED <<pvars, fvars, sub, gvars, vvars>>

\* The browser gets the image or gives up on it: the load or error event
\* runs the listeners the calls registered, each once.
Settle(i, outcome) ==
    /\ i \in DOMAIN dom /\ dom[i].net = "pending"
    /\ LET settled == [dom[i] EXCEPT !.net = outcome]
           handled == IF listeners[i] = {} THEN settled
                      ELSE IF outcome = "broken" THEN handleImageError(settled)
                      ELSE handleImageLoaded(settled)
           dom1 == [dom EXCEPT ![i] = handled]
       IN /\ dom' = dom1
          /\ calls' = [c \in DOMAIN calls |->
                          IF c \in listeners[i] THEN checkAllLoaded(calls[c], dom1)
                          ELSE calls[c]]
          /\ listeners' = [listeners EXCEPT ![i] = {}]
    /\ UNCHANGED <<enhancedImages, boundContainers, photoSwipeInstance, isOpening, opens,
                   instances, lastClick>>
    /\ UNCHANGED <<pvars, fvars, sub, gvars, vvars>>

\* The guard of a lightbox that looks at the instance only.
OpenGuardMutInstanceOnly == photoSwipeInstance # Null

\* `if (isOpening || photoSwipeInstance) return;`
OpenGuard == isOpening \/ photoSwipeInstance # Null

\* A click on image i: handleImageClick and, for a loaded image,
\* openPhotoSwipe up to its await.
Click(i) ==
    /\ i \in DOMAIN dom /\ "container" \in boundContainers
    /\ Len(opens) + Cardinality(DOMAIN instances) < MaxOpens
    /\ IF ~dom[i].loaded
       THEN lastClick' = "notLoaded" /\ UNCHANGED <<isOpening, opens>>
       ELSE IF OpenGuard
       THEN lastClick' = "ignored" /\ UNCHANGED <<isOpening, opens>>
       ELSE /\ lastClick' = "started"
            /\ isOpening' = TRUE
            /\ opens' = Append(opens, [clickedImg |-> i])
    /\ UNCHANGED <<dom, enhancedImages, boundContainers, calls, listeners,
                   photoSwipeInstance, instances>>
    /\ UNCHANGED <<pvars, fvars, sub, gvars, vvars>>

Without(s, k) == SubSeq(s, 1, k - 1) \o SubSeq(s, k + 1, Len(s))

\* The objects a map holds are told apart by a number: the least one free.
FreshId(f) ==
    CHOOSE id \in 1..(Cardinality(DOMAIN f) + 1) :
        id \notin DOMAIN f /\ \A j \in 1..(id - 1) : j \in DOMAIN f

Put(f, key, value) == [j \in DOMAIN f \cup {key} |-> IF j = key THEN value ELSE f[j]]
Drop(f, key) == [j \in DOMAIN f \ {key} |-> f[j]]

\* The import resolves for the k-th waiting call: openPhotoSwipe from the
\* await to its end.  The constructor or init may throw.
ImportResolves(k, outcome) ==
    /\ k \in 1..Len(opens)
    /\ LET slides == collectImageSlides(dom)
           id == FreshId(instances)
       IN IF slides = {} \/ opens[k].clickedImg \notin slides
          THEN /\ isOpening' = FALSE
               /\ UNCHANGED <<photoSwipeInstance, instances>>
          ELSE CASE outcome = "constructorThrows" ->
                      /\ isOpening' = FALSE
                      /\ UNCHANGED <<photoSwipeInstance, instances>>
                 [] outcome = "initThrows" ->
                      /\ photoSwipeInstance' = Instance(id)
                      /\ instances' = Put(instances, id, "failed")
                      /\ isOpening' = FALSE
                 [] outcome = "opens" ->
                      /\ photoSwipeInstance' = Instance(id)
                      /\ instances' = Put(instances, id, "open")
                      /\ UNCHANGED isOpening
    /\ opens' = Without(opens, k)
    /\ UNCHANGED <<dom, enhancedImages, boundContainers, calls, listeners, lastClick>>
    /\ UNCHANGED <<pvars, fvars, sub, gvars, vvars>>

\* The import rejects: the catch block.
ImportFails(k) ==
    /\ k \in 1..Len(opens)
    /\ isOpening' = FALSE
    /\ opens' = Without(opens, k)
    /\ UNCHANGED <<dom, enhancedImages, boundContainers, calls, listeners,
                   photoSwipeInstance, instances, lastClick>>
    /\ UNCHANGED <<pvars, fvars, sub, gvars, vvars>>

\* The lightbox is closed: the handler of its 'destroy' event.
Destroy(id) ==
    /\ id \in DOMAIN instances /\ instances[id] = "open"
    /\ photoSwipeInstance' = Null
    /\ isOpening' = FALSE
    /\ instances' = Drop(instances, id)
    /\ UNCHANGED <<dom, enhancedImages, boundContainers, calls, listeners, opens, lastClick>>
    /\ UNCHANGED <<pvars, fvars, sub, gvars, vvars>>

EnhNext ==
    \/ EnhanceImages
    \/ \E i \in ImageIds, outcome \in {"loaded", "loadedNoSize", "broken"} : Settle(i, outcome)
    \/ \E i \in ImageIds : Click(i)
    \/ \E k \in 1..MaxOpens, outcome \in {"opens", "constructorThrows", "initThrows"} :
          ImportResolves(k, outcome)
    \/ \E k \in 1..MaxOpens : ImportFails(k)
    \/ \E id \in 1..MaxOpens : Destroy(id)

EnhSpec == EnhInit /\ [][EnhNext]_vars

---------------------------------------------------------------------------
(* The video enhancer (part_001): enhanceVideos and cleanupVideos on one   *)
(* root holding .artplayer-container elements.                             *)

MaxStarts == 3

ContainerIds == {1, 2}

\* destroyPlayer(container) on the module state st: player.destroy(false)
\* runs the 'destroy' handler, which deletes the container's map entry.
destroyPlayer(c, st) ==
    LET destroyed ==
            IF c \in DOMAIN st.playerInstances
            THEN [st EXCEPT !.players = Drop(@, st.playerInstances[c]),
                            !.playerInstances = Drop(@, c)]
            ELSE st
    IN [destroyed EXCEPT !.initializedContainers = @ \ {c}]

RECURSIVE destroyAllPlayers(_, _)
destroyAllPlayers(cs, st) ==
    IF cs = {} THEN st
    ELSE LET c == CHOOSE x \in cs : \A y \in cs : x <= y
         IN destroyAllPlayers(cs \ {c}, destroyPlayer(c, st))

\* initializePlayer(container) up to its await, on the module state st.
initializePlayer(c, st) ==
    IF c \in st.initializedContainers THEN st
    ELSE IF ~videoContainers[c].hasSrc
    THEN [st EXCEPT !.initializedContainers = @ \cup {c}]
    ELSE [st EXCEPT !.initializedContainers = @ \cup {c},
                    !.imports = Append(@, c)]

RECURSIVE initializeAll(_, _)
initializeAll(cs, st) ==
    IF cs = {} THEN st
    ELSE LET c == CHOOSE x \in cs : \A y \in cs : x <= y
         IN initializeAll(cs \ {c}, initializePlayer(c, st))

VideoState ==
    [initializedContainers |-> initializedContainers, playerInstances |-> playerInstances,
     players |-> players, imports |-> imports]

Becomes(st) ==
    /\ initializedContainers' = st.initializedContainers
    /\ playerInstances' = st.playerInstances
    /\ players' = st.players
    /\ imports' = st.imports

VidInit ==
    /\ \E cs \in {{1}, ContainerIds} :
          videoContainers \in [cs -> {[hasSrc |-> b] : b \in BOOLEAN}]
    /\ initializedContainers = {} /\ playerInstances = <<>> /\ players = <<>>
    /\ imports = <<>> /\ started = 0 /\ lastCall = "none"
    /\ BuildIdle /\ EnhancerIdle

\* enhanceVideos(root): initializePlayer on every container, each up to its await.
EnhanceVideos ==
    /\ LET st == initializeAll(DOMAIN videoContainers, VideoState)
           more == Len(st.imports) - Len(imports)
       IN /\ started + more <= MaxStarts
          /\ Becomes(st)
          /\ started' = started + more
    /\ lastCall' = "enhance"
    /\ UNCHANGED <<videoContainers, pvars, fvars, sub, gvars, evars>>

\* cleanupVideos(root)
CleanupVideos ==
    /\ Becomes(destroyAllPlayers(DOMAIN videoContainers, VideoState))
    /\ lastCall' = "cleanup"
    /\ UNCHANGED <<videoContainers, started, pvars, fvars, sub, gvars, evars>>

\* The import resolves for the k-th waiting call: initializePlayer from the
\* await to its end.  The constructor may throw.
PlayerImportResolves(k, constructorThrows) ==
    /\ k \in 1..Len(imports)
    /\ LET c == imports[k]
           player == FreshId(players)
       IN IF constructorThrows
          THEN UNCHANGED <<playerInstances, players>>
          ELSE /\ players' = Put(players, player, c)
               /\ playerInstances' = Put(playerInstances, c, player)
    /\ imports' = Without(imports, k)
    /\ UNCHANGED <<videoContainers, initializedContainers, started, lastCall>>
    /\ UNCHANGED <<pvars, fvars, sub, gvars, evars>>

\* The import rejects: the catch block.
PlayerImportFails(k) ==
    /\ k \in 1..Len(imports)
    /\ imports' = Without(imports, k)
    /\ UNCHANGED <<videoContainers, initializedContainers, playerInstances, players,
                   started, lastCall>>
    /\ UNCHANGED <<pvars, fvars, sub, gvars, evars>>

VidNext ==
    \/ EnhanceVideos
    \/ CleanupVideos
    \/ \E k \in 1..MaxStarts, constructorThrows \in BOOLEAN :
          PlayerImportResolves(k, constructorThrows)
    \/ \E k \in 1..MaxStarts : PlayerImportFails(k)

VidSpec == VidInit /\ [][VidNext]_vars

---------------------------------------------------------------------------
(* The site configuration module: normalizeFeaturedSeries over the         *)
(* featuredSeries value of config/site.yaml, and the two slug sets that    *)
(* are computed from its result when the module loads.  A slug or a        *)
(* category name is a sequence of symbols; a run of letters such as "tags" *)
(* is one symbol.                                                          *)

MaxSeries == 2

Bool(b) == [k |-> "boolean", v |-> <<b>>]
Array(items) == [k |-> "array", v |-> items]
Threw(message) == [k |-> "threw", v |-> message]

\* An object of the YAML sequence, with the four fields the code reads.
SeriesItem(categoryName, slug, label, enabled) ==
    [k |-> "item", categoryName |-> categoryName, slug |-> slug, label |-> label,
     enabled |-> enabled]

\* String.prototype.toLowerCase on a string, symbol by symbol.
LowerCase(s) == [i \in DOMAIN s |-> toLowerCase(s[i])]

\* `!config`: arrays and objects are truthy, undefined, null and '' are not.
ConfigTruthy(config) == config.k \in {"array", "item"} \/ Truthy(config)

isFeaturedSeriesItem(value) ==
    /\ value.k = "item"
    /\ IsStr(value.categoryName) /\ Trim(value.categoryName.v) # <<>>
    /\ value.slug = Undef \/ IsStr(value.slug)
    /\ value.label = Undef \/ IsStr(value.label)
    /\ value.enabled = Undef \/ value.enabled.k = "boolean"

\* `yamlConfig.categoryMap?.[item.categoryName]`
CategorySlug(categoryMap, categoryName) ==
    IF categoryMap.k = "map" /\ categoryName \in DOMAIN categoryMap.v
    THEN categoryMap.v[categoryName] ELSE Undef

\* `item.slug || yamlConfig.categoryMap?.[item.categoryName] || 'series'`
DefaultSlug(item, categoryMap) ==
    IF Truthy(item.slug) THEN item.slug
    ELSE IF Truthy(CategorySlug(categoryMap, item.categoryName.v))
         THEN CategorySlug(categoryMap, item.categoryName.v)
    ELSE Str(<<"series">>)

\* The symbols /[a-z0-9-_]/i matches.
SlugPatternSymbols == {"a", "A", "k", "c", "C", "tags", "Tags", "series", "1", "-", "_"}

\* /^[a-z0-9-_]+$/i
slugPattern(s) == s # <<>> /\ \A i \in DOMAIN s : s[i] \in SlugPatternSymbols

\* The router's reserved routes; the router is not among the sources.
RESERVED_ROUTES == {<<"tags">>}

isReservedSlug(slug) == LowerCase(slug) \in RESERVED_ROUTES

\* `item.slug = normalizedSlug` left out.
WriteBackMutKeepRaw(item, normalizedSlug) == item

\* `item.slug = normalizedSlug`
WriteBack(item, normalizedSlug) == [item EXCEPT !.slug = Str(normalizedSlug)]

\* The second loop, from item i on, with the slugs seen so far.
RECURSIVE ValidateSeries(_, _, _)
ValidateSeries(validatedItems, i, slugSet) ==
    IF i > Len(validatedItems) THEN Array(validatedItems)
    ELSE LET item == validatedItems[i]
             rawSlug == IF IsStr(item.slug) THEN item.slug.v ELSE <<>>
             normalizedSlug == LowerCase(Trim(rawSlug))
         IN  IF normalizedSlug = <<>> THEN Threw("missing slug")
             ELSE IF ~ Truthy(item.categoryName) \/ ~ IsStr(item.categoryName)
                     \/ Trim(item.categoryName.v) = <<>>
                  THEN Threw("missing categoryName")
             ELSE IF ~ slugPattern(normalizedSlug) THEN Threw("invalid slug")
             ELSE IF isReservedSlug(normalizedSlug) THEN Threw("reserved slug")
             ELSE IF normalizedSlug \in slugSet THEN Threw("duplicate slug")
             ELSE ValidateSeries(
                      [validatedItems EXCEPT ![i] = WriteBack(item, normalizedSlug)],
                      i + 1, slugSet \cup {normalizedSlug})

normalizeFeaturedSeries(config, categoryMap) ==
    IF ~ ConfigTruthy(config) THEN Array(<<>>)
    ELSE LET items == IF config.k = "array" THEN config.v ELSE <<config>>
         IN  IF \E i \in DOMAIN items : ~ isFeaturedSeriesItem(items[i])
             THEN Threw("not a FeaturedSeriesItem")
             ELSE ValidateSeries(
                      [i \in DOMAIN items |->
                          [items[i] EXCEPT !.slug = DefaultSlug(items[i], categoryMap)]],
                      1, {})

\* `new Set(featuredSeries.map((series) => series.slug.toLowerCase()))`
configuredSeriesSlugs(featuredSeries) ==
    {LowerCase(featuredSeries[i].slug.v) : i \in DOMAIN featuredSeries}

\* The same over the series with `enabled !== false`.
enabledSeriesSlugs(featuredSeries) ==
    {LowerCase(featuredSeries[i].slug.v) :
        i \in {j \in DOMAIN featuredSeries : featuredSeries[j].enabled # Bool(FALSE)}}

\* What site.yaml can hold.  U+212A is the Kelvin sign, whose lower case is
\* the letter k; U+00E9 is e with an acute accent.
SlugTexts ==
    {<<>>, <<" ">>, <<"a">>, <<"A">>, <<" ", "A", " ">>, <<"a", "!">>, <<"a", " ", "a">>,
     <<"a", "-", "1", "_">>, <<"Tags">>, <<"U+212A">>, <<"U+00E9">>}
SlugValues == {Undef} \cup {Str(s) : s \in SlugTexts}
CategoryNames == {Undef, Num(5), Str(<<>>), Str(<<" ">>), Str(<<"c">>), Str(<<"d">>)}
EnabledValues == {Undef, Bool(TRUE), Bool(FALSE), Str(<<"no">>)}
LabelValues == {Undef, Num(5)}

SeriesItems ==
    {SeriesItem(categoryName, slug, label, enabled) :
        categoryName \in CategoryNames, slug \in SlugValues \cup {Num(5)},
        label \in LabelValues, enabled \in EnabledValues}

\* The items of the longer lists: well-typed, and differing in slug and enabled.
ListedItems ==
    {SeriesItem(categoryName, slug, Undef, enabled) :
        categoryName \in {Str(<<"c">>)}, slug \in SlugValues,
        enabled \in {Undef, Bool(FALSE)}}

CategoryMaps ==
    {Undef, [k |-> "map", v |-> [name \in {<<"c">>} |-> Str(<<"C">>)]],
     [k |-> "map", v |-> [name \in {<<"c">>} |-> Str(<<"Tags">>)]]}

CfgInit ==
    /\ fPc = "config"
    /\ \E categoryMap \in CategoryMaps :
          \/ \E config \in {Undef, Null, Str(<<>>), Str(<<"a">>), Array(<<>>)} :
                fArg = [config |-> config, categoryMap |-> categoryMap]
          \/ \E item \in SeriesItems \cup {Null, Str(<<"a">>)}, legacy \in BOOLEAN :
                fArg = [config |-> IF legacy THEN item ELSE Array(<<item>>),
                        categoryMap |-> categoryMap]
          \/ \E n \in 2..MaxSeries : \E items \in [1..n -> ListedItems] :
                fArg = [config |-> Array(items), categoryMap |-> categoryMap]
    /\ fRes = Undef
    /\ fPrev = Undef
    /\ tree0 = <<>> /\ tree = <<>> /\ pass = "off" /\ idx = 1 /\ ran = {}
    /\ warnings = <<>> /\ fsReads = <<>>
    /\ OthersIdle

\* The module is evaluated: siteConfig.featuredSeries is computed, and a
\* throw ends the evaluation.
LoadSiteConfig ==
    /\ fPc = "config"
    /\ fRes' = normalizeFeaturedSeries(fArg.config, fArg.categoryMap)
    /\ fPc' = IF fRes'.k = "threw" THEN "threw" ELSE "normalized"
    /\ fPrev' = fRes
    /\ UNCHANGED <<fArg, pvars, ovars>>

\* The two exported sets are computed from siteConfig.featuredSeries.
ComputeSeriesSlugs ==
    /\ fPc = "normalized"
    /\ fPc' = "slugs"
    /\ fRes' = [configured |-> configuredSeriesSlugs(fRes.v),
                enabled |-> enabledSeriesSlugs(fRes.v)]
    /\ fPrev' = fRes
    /\ UNCHANGED <<fArg, pvars, ovars>>

CfgNext ==
    \/ LoadSiteConfig
    \/ ComputeSeriesSlugs

CfgSpec == CfgInit /\ [][CfgNext]_vars

---------------------------------------------------------------------------
(* Vocabulary of the properties.                                           *)

IsComic(n) == n.type = "leafDirective" /\ n.name = "comic"
IsVideo(n) == n.type = "leafDirective" /\ n.name = "video"

\* The comic (video) traversal has called its visitor on root child i and
\* the visitor has returned.
ComicDone(i) == "comic" \in ran \/ (pass = "comic" /\ idx > i)
VideoDone(i) ==
    \/ ran \cap {"video", "videoNative"} # {}
    \/ (pass \in {"video", "videoNative"} /\ idx > i)

\* The comic visitor threw on root child i.
ComicThrewAt(i) == pass = "threw" /\ idx = i

ComicReplaced(i) ==
    tree[i].data.present /\ tree[i].data.hName = "div" /\ Len(tree[i].data.hChildren) = 1
VideoReplaced(i) ==
    tree[i].data.present /\ tree[i].data.hName = "figure" /\ Len(tree[i].data.hChildren) = 1

\* s holds the opening of a markup tag: "<" followed by a letter.
HasRawTag(s) == \E j \in 1..(Len(s) - 1) : s[j] = "<" /\ s[j + 1] \in Letters

\* The validation conditions, in the words of the specification.
ComicRequiredOk(a) ==
    sanitizeText(a["id"]) # <<>> /\ sanitizeText(a["name"]) # <<>> /\ isValidUrl(a["src"])
ComicCoverOk(a) == TrimOrEmpty(a["cover"]) = <<>> \/ isValidUrl(a["cover"])
VideoAcceptable(a) ==
    /\ TrimOrEmpty(a["src"]) # <<>>
    /\ isValidUrl(a["src"])
    /\ TrimOrEmpty(a["poster"]) = <<>> \/ isValidUrl(a["poster"])

\* A video or comic directive that fails validation.
InvalidDirective(n) ==
    \/ IsComic(n) /\ ~(ComicRequiredOk(n.attributes) /\ ComicCoverOk(n.attributes))
    \/ IsVideo(n) /\ ~VideoAcceptable(n.attributes)

\* The manifest reads made for root child i.
ReadsFor(i) == {j \in 1..Len(fsReads) : fsReads[j].node = i}

---------------------------------------------------------------------------
(* C1.  Every user-controlled text placed into output markup has been      *)
(* tag-stripped: no data-comic-id/name/author property, no text child of   *)
(* a comic card and no custom title of an alert title bar holds a raw      *)
(* markup tag.  The comic transform keeps this; the alert directive puts   *)
(* the label's text into the title bar as it is.                           *)

C1_OutputTextIsTagStripped ==
    \A i \in 1..Len(tree) :
        /\ (IsComic(tree[i]) /\ ComicReplaced(i)) =>
              LET p == tree[i].data.hProperties
                  card == tree[i].data.hChildren[1]
              IN /\ ~HasRawTag(p.dataComicId)
                 /\ ~HasRawTag(p.dataComicName)
                 /\ "dataComicAuthor" \in DOMAIN p => ~HasRawTag(p.dataComicAuthor)
                 /\ ~HasRawTag(card.nameText)
                 /\ ~HasRawTag(card.previewAlt)
                 /\ ~HasRawTag(card.ariaLabel)
                 /\ card.authorText # Undef => ~HasRawTag(card.authorText.v)
        /\ \A k \in 1..Len(tree[i].children) :
              LET child == tree[i].children[k]
              IN (child.type = "html" /\ child.html.div # Undef)
                    => ~HasRawTag(child.html.div.v)

---------------------------------------------------------------------------
(* C2.  A ::video leaf directive has a replacement exactly when the video  *)
(* visitor has run on it, its trimmed src is non-empty and passes          *)
(* isValidUrl, and its poster is empty after trimming or passes            *)
(* isValidUrl; autoplay, loop and muted play no part.                      *)

C2_VideoReplacedIffValid ==
    \A i \in 1..Len(tree) :
        IsVideo(tree0[i]) =>
            (VideoReplaced(i) <=> (VideoDone(i) /\ VideoAcceptable(tree0[i].attributes)))

C2_Witness ==
    \E i \in 1..Len(tree) :
        /\ IsVideo(tree0[i]) /\ VideoDone(i) /\ VideoReplaced(i)
        /\ Truthy(tree0[i].attributes["poster"])
        /\ tree0[i].attributes["autoplay"] = Str(<<"false">>)
        /\ tree0[i].attributes["muted"] = Str(<<>>)

---------------------------------------------------------------------------
(* C3.  As claimed: every ::comic leaf directive with id and name          *)
(* non-empty after sanitizeText and a src that passes isValidUrl gets a    *)
(* replacement once the comic visitor has been called on it, whatever its  *)
(* author and cover and whatever the manifest file holds.                  *)

---------------------------------------------------------------------------
(* C4.  In every replacement of the comic transform the emitted cover      *)
(* (data-comic-cover, and the src of the preview image) is the trimmed     *)
(* explicit cover when one is given; otherwise the cover field of the      *)
(* manifest that was read, when the manifest parsed to an object and the   *)
(* field is a string that passes isValidUrl; otherwise there is no cover   *)
(* property and no preview image.                                          *)

EmittedCover(i) ==
    LET p == tree[i].data.hProperties
    IN IF "dataComicCover" \in DOMAIN p THEN p.dataComicCover ELSE <<>>

UsableManifestCover(file) ==
    IF file.state = "object" /\ IsStr(file.cover) /\ isValidUrl(file.cover)
    THEN file.cover.v ELSE <<>>

C4_CoverPrecedence ==
    \A i \in 1..Len(tree) :
        (IsComic(tree[i]) /\ ComicReplaced(i)) =>
            LET explicit == TrimOrEmpty(tree0[i].attributes["cover"])
                preview == tree[i].data.hChildren[1].preview
            IN /\ preview = (IF EmittedCover(i) = <<>> THEN Undef ELSE Str(EmittedCover(i)))
               /\ explicit # <<>> =>
                     EmittedCover(i) = explicit /\ isValidUrl(Str(explicit))
               /\ explicit = <<>> =>
                     /\ Cardinality(ReadsFor(i)) = 1
                     /\ \A j \in ReadsFor(i) :
                           EmittedCover(i) = UsableManifestCover(fsReads[j].file)

C4_Witness ==
    \E i \in 1..Len(tree) :
        /\ IsComic(tree[i]) /\ ComicReplaced(i)
        /\ TrimOrEmpty(tree0[i].attributes["cover"]) = <<>>
        /\ EmittedCover(i) = <<" ", "/", "x">>

---------------------------------------------------------------------------
(* C5.  Manifest cover resolution never fails the comic transform: for     *)
(* every state of the manifest file the visitor returns, and a directive   *)
(* with valid id, name and src and no explicit cover gets its replacement. *)

C5_ManifestNeverFailsTransform ==
    /\ pass # "threw"
    /\ \A i \in 1..Len(tree) :
          (/\ IsComic(tree0[i])
           /\ ComicRequiredOk(tree0[i].attributes)
           /\ TrimOrEmpty(tree0[i].attributes["cover"]) = <<>>
           /\ ComicDone(i))
              => ComicReplaced(i)

---------------------------------------------------------------------------
(* C6.  A video or comic directive that fails validation is left exactly   *)
(* as it was parsed: type, name, attributes, children and data.            *)

C6_InvalidDirectiveUntouched ==
    \A i \in 1..Len(tree) : InvalidDirective(tree0[i]) => tree[i] = tree0[i]

C6_Witness ==
    \E i \in 1..Len(tree) :
        /\ IsComic(tree0[i]) /\ InvalidDirective(tree0[i]) /\ ComicDone(i)
        /\ "comic: invalid cover" \in {warnings[j] : j \in 1..Len(warnings)}
        /\ VideoDone(i)

---------------------------------------------------------------------------
(* C7.  Failures are contained per node.  No visitor throws on an invalid  *)
(* directive, so the traversal goes on past it; and every other video or   *)
(* comic directive the traversal has visited holds exactly what its        *)
(* visitor makes of that node alone, which is what it gets in the tree     *)
(* without the invalid directives.                                         *)

FileReadFor(i) ==
    IF ReadsFor(i) = {} THEN [state |-> "missing", cover |-> Undef]
    ELSE fsReads[CHOOSE j \in ReadsFor(i) : TRUE].file

C7_FailuresContained ==
    /\ pass = "threw" => ~InvalidDirective(tree0[idx])
    /\ \A i \in 1..Len(tree) :
          ~InvalidDirective(tree0[i]) =>
              /\ (IsComic(tree0[i]) /\ ComicDone(i)) =>
                    tree[i] = comicVisitor(tree0[i], FileReadFor(i)).node
              /\ (IsVideo(tree0[i]) /\ ("video" \in ran \/ (pass = "video" /\ idx > i))) =>
                    tree[i] = videoVisitor(tree0[i]).node
              /\ (IsVideo(tree0[i])
                    /\ ("videoNative" \in ran \/ (pass = "videoNative" /\ idx > i))) =>
                    tree[i] = videoVisitorNative(tree0[i]).node

C7_Witness ==
    /\ Len(tree) = 2
    /\ InvalidDirective(tree0[1]) /\ IsComic(tree0[1])
    /\ IsComic(tree0[2]) /\ ~InvalidDirective(tree0[2])
    /\ "comic" \in ran
    /\ ComicReplaced(2)
    /\ tree[1] = tree0[1]

---------------------------------------------------------------------------
(* C8.  isValidUrl(raw) is true exactly when raw is a string that, after   *)
(* trimming, begins with "/" or parses as an absolute URL with scheme http *)
(* or https; it is false for absent, empty and whitespace-only input, for  *)
(* strings that do not parse and for every other scheme.                   *)

RootRelative(s) == s # <<>> /\ s[1] = "/"
AbsoluteHttp(s) ==
    LET parsed == NewUrl(s)
    IN parsed.ok /\ Len(parsed.protocol) = 2 /\ parsed.protocol[1] \in {"http", "https"}

C8_IsValidUrlExact ==
    fPc = "validated" =>
        /\ fRes \in BOOLEAN
        /\ fRes <=> (IsStr(fArg) /\ (RootRelative(Trim(fArg.v)) \/ AbsoluteHttp(Trim(fArg.v))))
        /\ (~IsStr(fArg) \/ Trim(fArg.v) = <<>>) => ~fRes
        /\ (IsStr(fArg) /\ fArg.v # <<>> /\ Head(fArg.v) = "javascript") => ~fRes

C8_Witness ==
    /\ fPc = "validated"
    /\ fRes = TRUE
    /\ fArg = Str(<<" ", "https", ":", "/", "x">>)

---------------------------------------------------------------------------
(* C9.  sanitizeText is idempotent: applied to its own result it returns   *)
(* that result; absent input gives the empty string; and text with no      *)
(* markup character (<, >, &) comes back unchanged apart from trimming.    *)

PlainText(s) == \A j \in 1..Len(s) : s[j] \notin {"<", ">", "&"}

C9_SanitizeIdempotent ==
    /\ fPc = "resanitized" => fRes = fPrev
    /\ (fPc = "sanitized" /\ ~IsStr(fArg)) => fRes = Str(<<>>)
    /\ (fPc = "sanitized" /\ IsStr(fArg) /\ PlainText(fArg.v)) => fRes = Str(Trim(fArg.v))

C9_Witness ==
    /\ fPc = "resanitized"
    /\ fArg = Str(<<"<", "a", ">", "&">>)
    /\ fRes = Str(<<"&amp;">>)

---------------------------------------------------------------------------
(* C10.  The alert rewriter matches only note, tip, important, warning and *)
(* caution: a container directive with any other name, and a blockquote    *)
(* whose first text does not start with a [!TYPE] marker naming one of the *)
(* five, keeps its children and data.                                      *)

FiveAlertKeys == {"note", "tip", "important", "warning", "caution"}

\* The blockquote's first text starts with a marker naming one of the five.
StartsWithAlertMarker(n) ==
    /\ Len(n.children) > 0
    /\ n.children[1].type = "paragraph"
    /\ Len(n.children[1].inl) > 0
    /\ n.children[1].inl[1].type = "text"
    /\ LET text == n.children[1].inl[1].value
       IN Len(text) >= 3 /\ text[1] = "[!" /\ text[3] = "]"
             /\ toLowerCase(text[2]) \in FiveAlertKeys

C10_OnlyFiveKeysMatch ==
    \A i \in 1..Len(tree) :
        /\ (tree0[i].type = "containerDirective"
              /\ toLowerCase(tree0[i].name) \notin FiveAlertKeys)
              => (tree[i].children = tree0[i].children /\ tree[i].data = tree0[i].data)
        /\ (tree0[i].type = "blockquote" /\ ~StartsWithAlertMarker(tree0[i]))
              => (tree[i].children = tree0[i].children /\ tree[i].data = tree0[i].data)

---------------------------------------------------------------------------
(* C11.  A container directive named by one of the five alert keys, once   *)
(* the directive visitor has run on it, is bound to a blockquote with      *)
(* class "admonition bdm-{type}"; its first child is removed only if it is *)
(* the directive-label paragraph; exactly one title bar is its new first   *)
(* child, holding the icon and then the custom title when a label was      *)
(* present, otherwise the fixed upper-case label; the remaining children   *)
(* follow in their order, unmodified.                                      *)

DirectiveDone(i) == "alerts" \in ran \/ (pass = "alerts-directive" /\ idx > i)

IsAlertContainer(n) ==
    n.type = "containerDirective" /\ toLowerCase(n.name) \in FiveAlertKeys

HasLabel(n) ==
    /\ Len(n.children) > 0
    /\ n.children[1].type = "paragraph"
    /\ n.children[1].directiveLabel

C11_AlertDirectiveLowering ==
    \A i \in 1..Len(tree) :
        (IsAlertContainer(tree0[i]) /\ DirectiveDone(i)) =>
            LET key == toLowerCase(tree0[i].name)
                body == IF HasLabel(tree0[i]) THEN Tail(tree0[i].children)
                        ELSE tree0[i].children
                title == tree[i].children[1]
            IN /\ tree[i].data.hName = "blockquote"
               /\ tree[i].data.hProperties = [class |-> <<"admonition bdm-", key>>]
               /\ Len(tree[i].children) = Len(body) + 1
               /\ Tail(tree[i].children) = body
               /\ title.type = "html"
               /\ title.html.icon = ICON_SVGS[key]
               /\ IF HasLabel(tree0[i])
                  THEN title.html.div = Str(JoinText(tree0[i].children[1].inl))
                          /\ title.html.label = ""
                  ELSE title.html.div = Undef
                          /\ title.html.label = ALERT_TYPES[key]

---------------------------------------------------------------------------
(* C12.  A blockquote whose first paragraph starts with a text node        *)
(* matching [!TYPE], TYPE one of the five keys in any case, once the       *)
(* blockquote visitor has run on it: the marker and the white space after  *)
(* it are stripped from that text node and nothing else is; the text node  *)
(* is removed when only white space remains, and the paragraph when that   *)
(* leaves it empty; the class is "admonition bdm-{type}"; the title bar    *)
(* with the fixed label is the first child; the other children keep their  *)
(* order and content (a ::video directive among them is what the video     *)
(* pass has made of it, once that pass has visited the blockquote).        *)

BlockquoteDone(i) ==
    \/ "alerts" \in ran
    \/ pass = "alerts-directive"
    \/ (pass = "alerts-blockquote" /\ idx > i)

IsAlertBlockquote(n) == n.type = "blockquote" /\ StartsWithAlertMarker(n)

C12_AlertBlockquoteLowering ==
    \A i \in 1..Len(tree) :
        (IsAlertBlockquote(tree0[i]) /\ BlockquoteDone(i)) =>
            LET before == tree0[i].children
                text == before[1].inl[1].value
                key == toLowerCase(text[2])
                afterMarker == SubSeq(text, 4, Len(text))
                blank == \A j \in 1..Len(afterMarker) : afterMarker[j] \in WhiteSpace
                firstInk == CHOOSE j \in 1..Len(afterMarker) :
                                /\ afterMarker[j] \notin WhiteSpace
                                /\ \A h \in 1..(j - 1) : afterMarker[h] \in WhiteSpace
                expected ==
                    IF ~blank
                    THEN [before EXCEPT ![1].inl[1].value =
                                SubSeq(afterMarker, firstInk, Len(afterMarker))]
                    ELSE IF Len(before[1].inl) > 1
                         THEN [before EXCEPT ![1].inl = Tail(before[1].inl)]
                         ELSE Tail(before)
                videoPass == IF pass = "videoNative" \/ "videoNative" \in ran
                             THEN "videoNative" ELSE "video"
                kept == [j \in 1..Len(expected) |->
                            IF VideoDone(i) THEN VisitDeep(videoPass, Undef, expected[j]).node
                            ELSE expected[j]]
            IN /\ tree[i].data.hProperties = [class |-> <<"admonition bdm-", key>>]
               /\ tree[i].children[1].type = "html"
               /\ tree[i].children[1].html =
                     [icon |-> ICON_SVGS[key], label |-> ALERT_TYPES[key], div |-> Undef]
               /\ Tail(tree[i].children) = kept

C12_Witness ==
    \E i \in 1..Len(tree) :
        /\ IsAlertBlockquote(tree0[i]) /\ BlockquoteDone(i)
        /\ tree0[i].children[1].inl = <<TextNode(<<"[!", "note", "]", " ", "\n">>)>>
        /\ Len(tree0[i].children) = 3
        /\ Len(tree[i].children) = 3
        /\ tree[i].children[2].type = "code"

---------------------------------------------------------------------------
(* Vocabulary of the image-wrap properties.  A site is a place of the hast *)
(* tree where an element stands: <<i, 0>> is the parent's i-th child,      *)
(* <<i, j>> the j-th child of that child.                                  *)

Sites ==
    {<<i, 0>> : i \in 1..Len(tree0.children)}
        \cup UNION {{<<i, j>> : j \in 1..Len(tree0.children[i].children)} :
                        i \in 1..Len(tree0.children)}

SiteParent0(s) == IF s[2] = 0 THEN tree0 ELSE tree0.children[s[1]]
SiteNode0(s) ==
    IF s[2] = 0 THEN tree0.children[s[1]] ELSE tree0.children[s[1]].children[s[2]]
SiteNode(s) ==
    IF s[2] = 0 THEN tree.children[s[1]] ELSE tree.children[s[1]].children[s[2]]

\* The traversal has been at the site and has left it.
SiteDone(s) ==
    \/ pass = "idle"
    \/ idx > s[1]
    \/ idx = s[1] /\ sub > s[2]

IsImg(n) == n.type = "element" /\ n.tagName = "img"

\* The img at site s has been replaced by a wrapper.
Wrapped(s) == IsImg(SiteNode0(s)) /\ SiteNode(s).tagName = "figure"

HasHash(src) == IsStr(src) /\ \E j \in 1..Len(src.v) : src.v[j] = "#"

EndsWithCenter(src) ==
    /\ IsStr(src)
    /\ Len(src.v) >= 2
    /\ src.v[Len(src.v) - 1] = "#"
    /\ src.v[Len(src.v)] = "center"

\* The part of a URL before its last "#".
BeforeLastHash(s) ==
    LET last == CHOOSE j \in 1..Len(s) :
                    s[j] = "#" /\ \A h \in (j + 1)..Len(s) : s[h] # "#"
    IN SubSeq(s, 1, last - 1)

---------------------------------------------------------------------------
(* C13.  As claimed: a wrapped image has lost a URL fragment, and its      *)
(* wrapper has the extra class "centered", exactly when its src ends with  *)
(* #center; an image whose src does not end with #center keeps its src and *)
(* its wrapper has the class "markdown-image-wrapper" alone.               *)

C13_FragmentLostIffCenter ==
    \A s \in Sites :
        Wrapped(s) =>
            LET src0 == SiteNode0(s).properties.src
                img == SiteNode(s).children[1]
                wrapperClass == SiteNode(s).properties.class.v
            IN /\ img.properties.src # src0 <=> EndsWithCenter(src0)
               /\ "centered" \in {wrapperClass[j] : j \in 1..Len(wrapperClass)}
                     <=> EndsWithCenter(src0)
               /\ ~EndsWithCenter(src0) =>
                     wrapperClass = <<"markdown-image-wrapper">>

(* C13, amended.  The src of a wrapped image is cut at its last "#"        *)
(* whenever it holds one, whatever follows the "#"; the wrapper's class is *)
(* "markdown-image-wrapper centered" exactly when the part after the last  *)
(* "#" is "center", and "markdown-image-wrapper" alone otherwise; a src    *)
(* without "#" is kept.                                                    *)

C13_FragmentCutCenterHint ==
    \A s \in Sites :
        Wrapped(s) =>
            LET src0 == SiteNode0(s).properties.src
                img == SiteNode(s).children[1]
                wrapperClass == SiteNode(s).properties.class
            IN /\ img.properties.src =
                     (IF HasHash(src0) THEN Str(BeforeLastHash(src0.v)) ELSE src0)
               /\ wrapperClass =
                     (IF EndsWithCenter(src0)
                      THEN ClassString(<<"markdown-image-wrapper", "centered">>)
                      ELSE ClassString(<<"markdown-image-wrapper">>))

C13_Witness ==
    \E s \in Sites :
        /\ Wrapped(s)
        /\ SiteNode0(s).properties.src = Str(<<"/", "x", "#", "x">>)
        /\ SiteNode(s).children[1].properties.src = Str(<<"/", "x">>)
        /\ SiteNode(s).properties.class = ClassString(<<"markdown-image-wrapper">>)

---------------------------------------------------------------------------
(* C14.  The image-wrap pass leaves an img as it is when its parent is a   *)
(* figure or when it carries the class comic-card-cover-preview; under a   *)
(* hyperlink it only adds loading=lazy and decoding=async; in every other  *)
(* case the img is replaced, at its index, by a new figure whose sole      *)
(* child is that img; the parent's other children are untouched.           *)

CarriesClass(n, c) ==
    LET tokens == n.properties.class.v IN c \in {tokens[j] : j \in 1..Len(tokens)}

UnderTag(s, tag) == SiteParent0(s).type = "element" /\ SiteParent0(s).tagName = tag

C14_ImageWrapCases ==
    /\ Len(tree.children) = Len(tree0.children)
    /\ \A s \in Sites :
          LET before == SiteNode0(s)
              now == SiteNode(s)
          IN /\ (~IsImg(before) /\ before.children = <<>>) => now = before
             /\ (~IsImg(before) /\ s[2] = 0) =>
                    /\ now.tagName = before.tagName
                    /\ now.properties = before.properties
                    /\ Len(now.children) = Len(before.children)
             /\ (IsImg(before) /\ SiteDone(s)) =>
                    IF UnderTag(s, "figure") \/ CarriesClass(before, "comic-card-cover-preview")
                    THEN now = before
                    ELSE IF UnderTag(s, "a")
                    THEN now = [before EXCEPT !.properties.loading = "lazy",
                                              !.properties.decoding = "async"]
                    ELSE /\ now.tagName = "figure"
                         /\ Len(now.children) = 1
                         /\ IsImg(now.children[1])

---------------------------------------------------------------------------
(* C15.  The two video lowerings are bindings of the same validated        *)
(* attribute set: on every ::video directive, whatever its attribute       *)
(* values (null, empty and "false" included), both accept or both reject,  *)
(* and when they accept they agree on src, poster, autoplay, loop and      *)
(* muted.  The lowering that has run is compared with what the other one   *)
(* makes of the same parsed node.                                          *)

ArtplayerDone(i) == "video" \in ran \/ (pass = "video" /\ idx > i)
NativeDone(i) == "videoNative" \in ran \/ (pass = "videoNative" /\ idx > i)

Accepted(n) == n.data.present /\ n.data.hName = "figure"

ArtplayerBinding(n) ==
    LET p == n.data.hChildren[1].properties
    IN [src |-> p.dataVideoSrc,
        poster |-> IF "dataVideoPoster" \in DOMAIN p THEN p.dataVideoPoster ELSE <<>>,
        autoplay |-> "dataVideoAutoplay" \in DOMAIN p,
        loop |-> "dataVideoLoop" \in DOMAIN p,
        muted |-> "dataVideoMuted" \in DOMAIN p]

NativeBinding(n) ==
    LET p == n.data.hChildren[1].properties
    IN [src |-> p.src,
        poster |-> IF "poster" \in DOMAIN p THEN p.poster ELSE <<>>,
        autoplay |-> "autoplay" \in DOMAIN p,
        loop |-> "loop" \in DOMAIN p,
        muted |-> "muted" \in DOMAIN p]

C15_VideoBindingsAgree ==
    \A i \in 1..Len(tree) :
        IsVideo(tree0[i]) =>
            /\ ArtplayerDone(i) =>
                  LET other == videoVisitorNative(tree0[i]).node
                  IN /\ Accepted(tree[i]) <=> Accepted(other)
                     /\ Accepted(tree[i]) =>
                           ArtplayerBinding(tree[i]) = NativeBinding(other)
            /\ NativeDone(i) =>
                  LET other == videoVisitor(tree0[i]).node
                  IN /\ Accepted(tree[i]) <=> Accepted(other)
                     /\ Accepted(tree[i]) =>
                           NativeBinding(tree[i]) = ArtplayerBinding(other)

---------------------------------------------------------------------------
(* C16.  parseBooleanAttr, in both video lowerings, returns true exactly   *)
(* when the attribute is present in the directive source (its value is a   *)
(* string) and that string is not "false"; an attribute with no value      *)
(* (undefined or null) yields false; the empty string of a bare attribute  *)
(* and "true" yield true.                                                  *)

C16_ParseBooleanAttrExact ==
    fPc \in {"parsedBoolean", "parsedBooleanNative"} =>
        /\ fRes \in BOOLEAN
        /\ fRes <=> (IsStr(fArg) /\ fArg.v # <<"false">>)
        /\ fArg \in {Undef, Null} => ~fRes
        /\ fArg \in {Str(<<>>), Str(<<"true">>)} => fRes

---------------------------------------------------------------------------
(* C17.  A directive is transformed only when both its variant and its     *)
(* name match: video and comic as leafDirective with exactly that          *)
(* lower-case name, the five alert names as containerDirective in any      *)
(* case.  Every other directive stays as parsed; a container named NOTE    *)
(* is transformed as note.                                                 *)

IsDirective(n) == n.type \in {"leafDirective", "containerDirective", "textDirective"}

MatchesVariantAndName(n) ==
    \/ n.type = "leafDirective" /\ n.name \in {"video", "comic"}
    \/ n.type = "containerDirective" /\ toLowerCase(n.name) \in FiveAlertKeys

C17_VariantAndNameMatch ==
    \A i \in 1..Len(tree) :
        /\ (IsDirective(tree0[i]) /\ ~MatchesVariantAndName(tree0[i]))
              => tree[i] = tree0[i]
        /\ (IsAlertContainer(tree0[i]) /\ DirectiveDone(i))
              => /\ tree[i].data.hName = "blockquote"
                 /\ tree[i].data.hProperties =
                       [class |-> <<"admonition bdm-", toLowerCase(tree0[i].name)>>]

---------------------------------------------------------------------------
(* C18.  Cover precedence is evaluated lazily: every manifest read of a    *)
(* run was made for a ::comic directive that passed validation and has no  *)
(* explicit cover, and at most once for it; a directive with a non-empty   *)
(* explicit cover, or one that fails validation, causes no read.           *)

C18_ManifestReadLazily ==
    /\ \A j \in 1..Len(fsReads) :
          LET n == tree0[fsReads[j].node]
          IN /\ IsComic(n)
             /\ ~InvalidDirective(n)
             /\ TrimOrEmpty(n.attributes["cover"]) = <<>>
             /\ fsReads[j].path = ManifestPath(Trim(n.attributes["src"].v))
    /\ \A i \in 1..Len(tree) : Cardinality(ReadsFor(i)) <= 1
    /\ \A i \in 1..Len(tree) :
          (IsComic(tree0[i]) /\ ~InvalidDirective(tree0[i])
              /\ TrimOrEmpty(tree0[i].attributes["cover"]) = <<>>
              /\ ComicDone(i))
              => Cardinality(ReadsFor(i)) = 1

C18_Witness ==
    /\ Len(tree) = 2
    /\ "comic" \in ran
    /\ IsComic(tree0[1]) /\ InvalidDirective(tree0[1])
    /\ IsComic(tree0[2]) /\ ~InvalidDirective(tree0[2])
    /\ Len(fsReads) = 1
    /\ fsReads[1].node = 2

---------------------------------------------------------------------------
(* C19.  Every replacement is well-formed.  Where the comic transform has  *)
(* set hName: data-comic-id, data-comic-name and data-comic-src are        *)
(* non-empty, data-comic-src is a root-relative or http(s) URL,            *)
(* data-comic-author is there exactly when the sanitized author is         *)
(* non-empty, and data-comic-cover, when there, is a root-relative or      *)
(* http(s) URL.  Where a video transform has set hName: the emitted src is *)
(* non-empty and a root-relative or http(s) URL.                           *)

SafeUrl(s) == RootRelative(Trim(s)) \/ AbsoluteHttp(Trim(s))

EmittedVideoSrc(n) ==
    LET p == n.data.hChildren[1].properties
    IN IF "dataVideoSrc" \in DOMAIN p THEN p.dataVideoSrc ELSE p.src

C19_ReplacementWellFormed ==
    \A i \in 1..Len(tree) :
        /\ (IsComic(tree[i]) /\ tree[i].data.hName # "") =>
              LET p == tree[i].data.hProperties
              IN /\ p.dataComicId # <<>>
                 /\ p.dataComicName # <<>>
                 /\ p.dataComicSrc # <<>>
                 /\ SafeUrl(p.dataComicSrc)
                 /\ "dataComicAuthor" \in DOMAIN p
                       <=> sanitizeText(tree0[i].attributes["author"]) # <<>>
                 /\ "dataComicAuthor" \in DOMAIN p =>
                       p.dataComicAuthor = sanitizeText(tree0[i].attributes["author"])
                 /\ "dataComicCover" \in DOMAIN p =>
                       p.dataComicCover # <<>> /\ SafeUrl(p.dataComicCover)
        /\ (IsVideo(tree[i]) /\ tree[i].data.hName # "") =>
              /\ EmittedVideoSrc(tree[i]) # <<>>
              /\ SafeUrl(EmittedVideoSrc(tree[i]))

C19_Witness ==
    \E i \in 1..Len(tree) :
        /\ IsComic(tree[i]) /\ tree[i].data.hName = "div"
        /\ "dataComicAuthor" \in DOMAIN tree[i].data.hProperties
        /\ "dataComicCover" \in DOMAIN tree[i].data.hProperties
        /\ tree[i].data.hProperties.dataComicSrc = <<"https", ":", "/", "/", "x">>
        /\ ReadsFor(i) # {}


\* The last generator run, and the name and author a manifest.json shows.
HasRun == runLog # <<>>
LastRun == runLog[Len(runLog)]
ShowsFields(file) == file.state \in {"object", "not-json"}
CarriedOver(field) == manifest0[field] # Undef => manifest[field] = manifest0[field]
FieldsCarriedOver == CarriedOver("name") /\ CarriedOver("author")

NamedCover(filename) ==
    Len(filename) = 2 /\ toLowerCase(filename[1]) = "cover" /\ isImageFile(filename)

FilesOf(f) == {f.files[j] : j \in 1..Len(f.files)}

\* Number order with the files that have no digit run last.
NumberAtMost(a, b) == ~ComesAfter(a, b)

\* The cover and the images of the manifest just written, for a given
\* reading of "cover file".
CoverAndImagesRight(IsCover(_)) ==
    LET covers == {f \in FilesOf(folder) : IsCover(f)}
        pages == {f \in FilesOf(folder) : isImageFile(f) /\ ~IsCover(f)}
        urls == manifest.images
    IN /\ IF covers # {}
          THEN \E c \in covers : manifest.cover = Str(ComicUrl(folder.name, c))
          ELSE urls # <<>> /\ manifest.cover = Str(urls[1])
       /\ {urls[j] : j \in 1..Len(urls)} = {ComicUrl(folder.name, f) : f \in pages}
       /\ \A i, j \in 1..Len(urls) : urls[i] = urls[j] => i = j
       /\ \A i, j \in 1..Len(urls) : i < j =>
             \E a, b \in pages : /\ urls[i] = ComicUrl(folder.name, a)
                                 /\ urls[j] = ComicUrl(folder.name, b)
                                 /\ NumberAtMost(a, b)

\* C21: after every run that wrote the manifest, its cover is the folder's
\* cover.* file when there is one and the first entry of images otherwise,
\* and images lists every image file that is not a cover.* file exactly once,
\* in non-decreasing order of the last digit run of the name.
C21_CoverAndImageOrder ==
    (HasRun /\ LastRun.generated) => CoverAndImagesRight(NamedCover)

---------------------------------------------------------------------------
(* C22.  In the native video lowering, every accepted directive gets the   *)
(* properties controls and playsinline with the value true unless the      *)
(* value of the attribute is exactly the string "false" (absent, empty,    *)
(* "true" and any other value give true), and does not get the property    *)
(* at all when it is "false".                                              *)

EmitsTrue(n, prop) ==
    LET p == n.data.hChildren[1].properties
    IN prop \in DOMAIN p /\ p[prop] = TRUE

EmitsNot(n, prop) == prop \notin DOMAIN n.data.hChildren[1].properties

C22_ControlsPlaysinlineDefault ==
    \A i \in 1..Len(tree) :
        (IsVideo(tree0[i]) /\ NativeDone(i) /\ Accepted(tree[i])) =>
            \A prop \in {"controls", "playsinline"} :
                IF tree0[i].attributes[prop] = Str(<<"false">>)
                THEN EmitsNot(tree[i], prop)
                ELSE EmitsTrue(tree[i], prop)

\* An accepted directive with controls="false" and no playsinline attribute:
\* playsinline is emitted, controls is not.
C22_Witness ==
    \E i \in 1..Len(tree) :
        /\ IsVideo(tree0[i]) /\ NativeDone(i) /\ Accepted(tree[i])
        /\ tree0[i].attributes["controls"] = Str(<<"false">>)
        /\ tree0[i].attributes["playsinline"] = Undef
        /\ EmitsNot(tree[i], "controls")
        /\ EmitsTrue(tree[i], "playsinline")

---------------------------------------------------------------------------
(* C23.  The directive passes are independent of each other.  The passes   *)
(* run in any order; once the comic pass, the alert pass and a video       *)
(* lowering have all run, every root child is what the passes make of it   *)
(* in the order comic, video, alerts (with the manifest the comic pass     *)
(* read).  At every moment a node keeps its variant and name, which is     *)
(* what the passes match on, and a node that differs from the parsed one   *)
(* has been visited by a pass that matches it or a node below it.          *)

AllPassesRan ==
    pass = "idle" /\ {"comic", "alerts"} \subseteq ran /\ ran \cap {"video", "videoNative"} # {}

VideoPassRun == IF "video" \in ran THEN "video" ELSE "videoNative"

InOrder(n, file, videoPass) ==
    LET a == VisitDeep("comic", file, n).node
        b == VisitDeep(videoPass, Undef, a).node
        c == VisitDeep("alerts-blockquote", Undef, b).node
    IN VisitDeep("alerts-directive", Undef, c).node

PassMatches(p, n) ==
    CASE p = "comic" -> IsComic(n)
      [] p \in {"video", "videoNative"} -> IsVideo(n)
      [] p = "alerts-blockquote" -> n.type = "blockquote"
      [] p = "alerts-directive" -> n.type = "containerDirective"

MatchesAtOrBelow(p, n) ==
    \/ PassMatches(p, n)
    \/ \E j \in 1..Len(n.children) : PassMatches(p, n.children[j])

PassVisited(p, i) ==
    \/ (IF p \in {"alerts-blockquote", "alerts-directive"} THEN "alerts" ELSE p) \in ran
    \/ pass = p /\ idx > i
    \/ p = "alerts-blockquote" /\ pass = "alerts-directive"
    \/ p = "comic" /\ pass = "threw" /\ idx > i

C23_PassOrderIndependent ==
    /\ AllPassesRan =>
          \A i \in 1..Len(tree) : tree[i] = InOrder(tree0[i], FileReadFor(i), VideoPassRun)
    /\ \A i \in 1..Len(tree) :
          /\ tree[i].type = tree0[i].type /\ tree[i].name = tree0[i].name
          /\ tree[i] # tree0[i] =>
                \E p \in {"comic", "video", "videoNative", "alerts-blockquote", "alerts-directive"} :
                    PassVisited(p, i) /\ MatchesAtOrBelow(p, tree0[i])

\* A :::note alert with a ::video directive inside it, after all passes:
\* the alert is a blockquote and the directive inside it a figure.
C23_Witness ==
    /\ AllPassesRan
    /\ Len(tree) = 1
    /\ tree0[1].type = "containerDirective" /\ tree0[1].name = "note"
    /\ tree[1].data.hName = "blockquote"
    /\ \E j \in 1..Len(tree[1].children) :
          /\ tree[1].children[j].type = "leafDirective"
          /\ tree[1].children[j].data.hName = "figure"

---------------------------------------------------------------------------
(* C24.  Under every interleaving of clicks, import completions and        *)
(* destroy events at most one PhotoSwipe instance exists: the calls of     *)
(* openPhotoSwipe waiting at the import and the instances constructed and  *)
(* not destroyed are together never more than one, so a click while an     *)
(* open is in progress or a lightbox is open starts nothing.               *)

LiveInstances == DOMAIN instances

LightboxOpen == \E id \in LiveInstances : instances[id] = "open"

C24_AtMostOneInstance ==
    Len(opens) + Cardinality(LiveInstances) <= 1

\* A click on a loaded image while the lightbox is open has been ignored.
C24_Witness ==
    /\ lastClick = "ignored"
    /\ LightboxOpen
    /\ Cardinality(LiveInstances) = 1
    /\ opens = <<>>

---------------------------------------------------------------------------
(* C25.  The lightbox guard never stays set without an open lightbox:      *)
(* whenever no open is in progress and no lightbox is on screen (after an  *)
(* attempt that ended with no slides, with the clicked image not among     *)
(* the slides, with a failed import, with an exception of the constructor  *)
(* or of init, and after a destroy), isOpening is false and                *)
(* photoSwipeInstance is null.                                             *)

C25_GuardClearedWithoutLightbox ==
    (opens = <<>> /\ ~LightboxOpen) => (~isOpening /\ photoSwipeInstance = Null)

---------------------------------------------------------------------------
(* C27.  For each call of enhanceImages, groupPortraitImages does not run  *)
(* while an image of the container is neither loaded nor errored, and it   *)
(* has run exactly once for the call when they all are, whatever the order *)
(* of the load and error events and however often enhanceImages is called. *)

AllSettled == \A i \in DOMAIN dom : Complete(dom[i])

C27_GroupingOncePerCallAfterSettle ==
    \A c \in DOMAIN calls :
        /\ ~calls[c].early
        /\ calls[c].grouped = IF AllSettled THEN 1 ELSE 0

---------------------------------------------------------------------------
(* C26.  Under every interleaving of enhanceVideos, cleanupVideos and      *)
(* import completions: a video container has at most one live player,      *)
(* every live player is the one playerInstances records for its            *)
(* container, and when cleanupVideos was the last call and no import is    *)
(* waiting, no live player remains.                                        *)

LivePlayersOf(c) == {p \in DOMAIN players : players[p] = c}

Recorded(p) ==
    players[p] \in DOMAIN playerInstances /\ playerInstances[players[p]] = p

C26_OnePlayerPerContainer ==
    /\ \A c \in DOMAIN videoContainers : Cardinality(LivePlayersOf(c)) <= 1
    /\ \A p \in DOMAIN players : Recorded(p)
    /\ (lastCall = "cleanup" /\ imports = <<>>) => DOMAIN players = {}

---------------------------------------------------------------------------
(* C28: normalizeFeaturedSeries either throws a configuration error or     *)
(* returns a list in which every slug is non-empty, trimmed and            *)
(* lower-case, holds only letters, digits, hyphens and underscores, is not *)
(* a reserved route, and differs from every other slug of the list even    *)
(* when case is ignored; and enabledSeriesSlugs is a subset of             *)
(* configuredSeriesSlugs.                                                  *)

LetterSymbols == {"a", "A", "k", "c", "C", "tags", "Tags", "series", "U+00E9"}
SlugSymbols == LetterSymbols \cup {"1", "-", "_"}

WellFormedSlug(slug) ==
    /\ IsStr(slug)
    /\ slug.v # <<>>
    /\ Trim(slug.v) = slug.v
    /\ LowerCase(slug.v) = slug.v
    /\ \A i \in DOMAIN slug.v : slug.v[i] \in SlugSymbols
    /\ slug.v \notin RESERVED_ROUTES

SlugsWellFormed(series) ==
    /\ \A i \in DOMAIN series : WellFormedSlug(series[i].slug)
    /\ \A i, j \in DOMAIN series :
          i # j => LowerCase(series[i].slug.v) # LowerCase(series[j].slug.v)

C28_NormalizedSlugs ==
    /\ fPc \in {"threw", "normalized"} =>
          \/ fRes.k = "threw"
          \/ fRes.k = "array" /\ SlugsWellFormed(fRes.v)
    /\ fPc = "slugs" =>
          /\ fRes.enabled \subseteq fRes.configured
          /\ fRes.configured = {fPrev.v[i].slug.v : i \in DOMAIN fPrev.v}

\* A list of two series is returned whose slugs were written with capitals
\* or spaces around them, one of them disabled.
C28_Witness ==
    /\ fPc = "slugs"
    /\ fArg.config.k = "array" /\ Len(fArg.config.v) = 2
    /\ fArg.config.v[1].slug = Str(<<" ", "A", " ">>)
    /\ fArg.config.v[2].enabled = Bool(FALSE)
    /\ fRes.enabled # fRes.configured
    /\ fRes.enabled # {}


---------------------------------------------------------------------------
(* C29: the image-wrap pass is idempotent and never wraps twice.  The      *)
(* finished pass is the function rehypeImagePlaceholder of its input, and  *)
(* that function applied to the output gives the output back; at every     *)
(* moment no markdown-image-wrapper figure lies inside another, a wrapped   *)
(* img stands alone and unwrapped inside its wrapper, and the lists the     *)
(* traversal walks keep their lengths, so its index reaches their end.      *)

RECURSIVE Descendants(_)
Descendants(n) ==
    UNION {{n.children[i]} \cup Descendants(n.children[i]) : i \in DOMAIN n.children}

IsWrapper(n) ==
    /\ n.type = "element" /\ n.tagName = "figure"
    /\ n.properties.class.k = "string"
    /\ CarriesClass(n, "markdown-image-wrapper")

NoNestedWrapper ==
    \A n \in Descendants(tree) : IsWrapper(n) => \A d \in Descendants(n) : ~ IsWrapper(d)

WrappedOnce ==
    \A s \in Sites :
        Wrapped(s) =>
            /\ Len(SiteNode(s).children) = 1
            /\ IsImg(SiteNode(s).children[1])
            /\ SiteNode(s).children[1].properties.class.v
                  = existingClassOf(SiteNode0(s).properties.class) \o <<"markdown-image">>

ListsKeepLength ==
    /\ Len(tree.children) = Len(tree0.children)
    /\ idx <= Len(tree.children) + 1
    /\ sub > 0 => sub <= Len(tree.children[idx].children)
    /\ \A i \in DOMAIN tree.children :
          ~ Wrapped(<<i, 0>>) =>
              Len(tree.children[i].children) = Len(tree0.children[i].children)

C29_ImageWrapIdempotent ==
    /\ pass \in {"imageWrap", "idle"} =>
          NoNestedWrapper /\ WrappedOnce /\ ListsKeepLength
    /\ pass = "idle" /\ "imageWrap" \in ran =>
          /\ tree = rehypeImagePlaceholder(tree0)
          /\ rehypeImagePlaceholder(tree) = tree

\* The pass has ended with one img wrapped and another, below a link, only
\* given its loading attributes.
C29_Witness ==
    /\ pass = "idle" /\ "imageWrap" \in ran
    /\ \E s \in Sites : Wrapped(s)
    /\ \E s \in Sites :
          /\ IsImg(SiteNode0(s)) /\ ~ Wrapped(s)
          /\ SiteNode(s) # SiteNode0(s)


---------------------------------------------------------------------------
(* C30: manifest cover resolution only reads files inside the public       *)
(* directory.  Every path readManifestCover has opened, for whatever src   *)
(* passed isValidUrl, starts at process.cwd() with the directory public.   *)

UnderPublic(path) == path # <<>> /\ Head(path) = <<"public">>

HasDotDot(s) == \E j \in 1..Len(s) : s[j] = ".."

C30_ManifestReadUnderPublic ==
    \A j \in 1..Len(fsReads) : UnderPublic(fsReads[j].path)

\* What the code does keep: a src without ".." segments is read under public.
C30_ReadUnderPublicWithoutDotDot ==
    \A j \in 1..Len(fsReads) :
        LET n == tree0[fsReads[j].node]
        IN  IsComic(n) /\ ~ HasDotDot(n.attributes["src"].v) => UnderPublic(fsReads[j].path)

=============================================================================
